---- MODULE Spec2Model ----
(***************************************************************************)
(* The library application: the face-recognition subsystem                  *)
(* (idchartrecognation) with the FaceEncoding store, the FaceMatcher and   *)
(* the RecognitionLog audit trail, and the lending desk (home) with the    *)
(* Book and IssuedBook tables.                                             *)
(*                                                                         *)
(* Conventions                                                             *)
(*  - Distances, tolerances and confidences are integers in hundredths     *)
(*    (0.60 is 60, confidence 40.0 is 40).                                 *)
(*  - A 128-D vector is abstracted to its element count n, the kind of     *)
(*    its content (ok / nan / inf / zero) and one coordinate pos; the      *)
(*    Euclidean distance of two ok vectors is |pos1 - pos2|.               *)
(*  - Python's Optional is a sequence: None is <<>>, a value v is <<v>>.   *)
(*  - Sequences are 1-based: Python index i is i+1 here.                   *)
(***************************************************************************)
EXTENDS Integers, Sequences, FiniteSets, Bags, TLC

VARIABLES
    face_encodings,     \* the FaceEncoding table: row id is the index
    recognition_logs,   \* the RecognitionLog table, in creation order
    reqs,               \* the requests in flight, each with its locals (a bag)
    reenrolled,         \* history: some enrollment has replaced a stored vector
    last_recog,         \* outcome of the latest process_recognition_image call
    m_in,               \* arguments of the matcher call under analysis
    m_ret,              \* results of the matcher calls made on m_in
    books,              \* the Book table: book id -> row
    students,           \* the Student table: student id -> row
    issued_books,       \* the IssuedBook table, in creation order
    lib_reqs,           \* the lending requests in flight, with their locals (a bag)
    today,              \* timezone.now().date(), in days
    lib_ret             \* the response to the latest lending request served

\* ------------------------------------------------------------------ bounds
MaxKnown == 7       \* longest list of known encodings given to compare_faces
MaxRows  == 3       \* longest queryset given to find_matching_student
NumStudents == 1    \* students served by the enrollment and management views
MaxSeqStudents == 2 \* students served when requests come one after the other
MaxTableRows == 2   \* FaceEncoding rows (one per student) in a table recognition reads
MaxInFlight == 2    \* requests served concurrently
MaxLogs     == 3    \* RecognitionLog rows written in one behaviour
MaxCandidates == 10 \* stored candidates of the identical-probe scenario
MaxDistance == 150  \* largest distance (in hundredths) given to _distance_to_confidence

MaxIssued == 1      \* IssuedBook rows of a lending desk table
MaxExpiry == 44     \* latest expiry date (in days) a renewal is followed to

\* ------------------------------------------------------- program constants
ENCODING_DIM  == 128
STRICT        == 45
STANDARD      == 60
LENIENT       == 65
VERY_LENIENT  == 70
MAX_ALTERNATIVES == 5
\* QualityThresholds; the aspect ratios are in tenths
MIN_BRIGHTNESS == 40
MAX_BRIGHTNESS == 220
OPTIMAL_BRIGHTNESS_MIN == 80
OPTIMAL_BRIGHTNESS_MAX == 180
MIN_SHARPNESS == 75
OPTIMAL_SHARPNESS == 150
MIN_CONTRAST == 25
MIN_FACE_SIZE == 100
OPTIMAL_FACE_SIZE == 200
MIN_ASPECT_RATIO == 6
MAX_ASPECT_RATIO == 14

\* Student.MAX_BOOKS_ALLOWED, IssuedBook.FINE_PER_DAY, the loan period of
\* IssuedBook.save
MAX_BOOKS_ALLOWED == 5
FINE_PER_DAY == 5
LOAN_DAYS == 14

MatchThreshold == {STRICT, STANDARD, LENIENT, VERY_LENIENT}

\* the lending desk's variables, and the state in which it serves nothing
libvars == <<books, students, issued_books, lib_reqs, today, lib_ret>>

\* the field days of a renewal: missing, a number, or a text that is none
NoDays == [kind |-> "missing", n |-> 0]

NoResponse == [op |-> "none", book_ids |-> {}, issue |-> 0, method |-> "",
               days |-> NoDays, status |-> ""]

LibIdle ==
    /\ books = <<>>
    /\ students = <<>>
    /\ issued_books = <<>>
    /\ lib_reqs = EmptyBag
    /\ today = 0
    /\ lib_ret = NoResponse

\* ------------------------------------------------------------ Optional
None == <<>>
Some(v) == <<v>>
IsNone(o) == o = <<>>
Val(o) == o[1]

Min(a, b) == IF a <= b THEN a ELSE b
Max(a, b) == IF a >= b THEN a ELSE b
Abs(x) == IF x < 0 THEN -x ELSE x

\* ------------------------------------------------------------ vectors
\* itemsize of a numpy element type; uint8 stands for raw bytes
ItemSize(dtype) ==
    CASE dtype = "uint8" -> 1
      [] dtype = "float16" -> 2
      [] dtype \in {"float32", "int32"} -> 4
      [] OTHER -> 8

\* the bytes of an array: element type, element count, content
Blob(dtype, n, content, pos) ==
    [dtype |-> dtype, n |-> n, content |-> content, pos |-> pos]

EmptyBlob == Blob("float32", 0, "zero", 0)

NBytes(blob) == blob.n * ItemSize(blob.dtype)

\* np.frombuffer(data, dtype): the same bytes viewed with an element type
frombuffer(blob, dtype) ==
    [dtype   |-> dtype,
     n       |-> NBytes(blob) \div ItemSize(dtype),
     content |-> IF dtype = blob.dtype THEN blob.content ELSE "reinterpreted",
     pos     |-> IF dtype = blob.dtype THEN blob.pos ELSE 0]

\* np.frombuffer raises ValueError when the buffer size is not a multiple
\* of the element size
frombuffer_raises(blob, dtype) == NBytes(blob) % ItemSize(dtype) # 0

\* ndarray.astype(np.float32)
astype_float32(arr) == [arr EXCEPT !.dtype = "float32"]

\* FaceEncoding.get_encoding
get_encoding(encoding_data) ==
    IF NBytes(encoding_data) = 0 THEN None
    ELSE LET encoding == frombuffer(encoding_data, "float32") IN
         IF encoding.n = ENCODING_DIM THEN Some(encoding)
         ELSE IF encoding.n = 2 * ENCODING_DIM
                 /\ frombuffer(encoding_data, "float64").n = ENCODING_DIM
              THEN Some(astype_float32(frombuffer(encoding_data, "float64")))
              ELSE None

\* get_encoding leaves by the ValueError of its first np.frombuffer
get_encoding_raises(encoding_data) ==
    NBytes(encoding_data) # 0 /\ frombuffer_raises(encoding_data, "float32")

\* a call of get_encoding: raised, or the value returned
get_encoding_call(encoding_data) ==
    IF get_encoding_raises(encoding_data)
    THEN [raised |-> TRUE, value |-> None]
    ELSE [raised |-> FALSE, value |-> get_encoding(encoding_data)]

\* EncodingValidator.validate_encoding (on an Optional array)
validate_encodingBroken(encoding) ==
    IF IsNone(encoding) THEN FALSE
    ELSE IF Val(encoding).n # ENCODING_DIM THEN FALSE
    ELSE IF Val(encoding).content = "nan" THEN FALSE
    ELSE IF Val(encoding).content = "inf" THEN FALSE
    ELSE TRUE
validate_encoding(encoding) ==
    IF IsNone(encoding) THEN FALSE
    ELSE IF Val(encoding).n # ENCODING_DIM THEN FALSE
    ELSE IF Val(encoding).content = "nan" THEN FALSE
    ELSE IF Val(encoding).content = "inf" THEN FALSE
    ELSE IF Val(encoding).content = "zero" THEN FALSE
    ELSE TRUE

\* face_recognition.face_distance(known_encodings, face_encoding)
face_distance(known_encodings, face_encoding) ==
    [i \in 1..Len(known_encodings) |->
        Abs(known_encodings[i].pos - face_encoding.pos)]

\* FaceMatcher._distance_to_confidence
distance_to_confidenceBroken(distance) == Max(0, Min(100, 100 - 2 * distance))
distance_to_confidence(distance) == Max(0, Min(100, 100 - distance))

\* np.argsort(face_distances): indices in ascending order of distance,
\* equal distances in index order
argsort(d) ==
    LET Rank(i) == 1 + Cardinality({j \in 1..Len(d) :
                        d[j] < d[i] \/ (d[j] = d[i] /\ j < i)})
    IN [k \in 1..Len(d) |-> CHOOSE i \in 1..Len(d) : Rank(i) = k]

\* FaceMatcher._empty_comparison_result
empty_comparison_result ==
    [matches |-> <<>>, face_distances |-> <<>>, best_match_index |-> None,
     best_match_distance |-> None, confidence_score |-> None,
     alternative_matches |-> <<>>, num_compared |-> 0]

\* `matches = list(face_distances <= tolerance)`
IsMatchBroken(dist, tolerance) == dist >= tolerance
IsMatch(dist, tolerance) == dist <= tolerance

\* `dist <= tolerance * 1.2`
IsNearMissBroken(dist, tolerance) == dist <= 2 * tolerance
IsNearMiss(dist, tolerance) == 10 * dist <= 12 * tolerance

\* `sorted_indices[1:6]`
AlternativeSliceBroken(sorted_indices) ==
    SubSeq(sorted_indices, 1, Min(Len(sorted_indices), MAX_ALTERNATIVES + 1))
AlternativeSlice(sorted_indices) ==
    SubSeq(sorted_indices, 2, Min(Len(sorted_indices), MAX_ALTERNATIVES + 1))

\* one entry of alternative_matches
AlternativeEntry(idx, dist, tolerance) ==
    [index |-> idx, distance |-> dist,
     confidence |-> distance_to_confidence(dist),
     is_match |-> IsMatch(dist, tolerance)]

\* FaceMatcher.compare_faces
compare_faces(known_encodings, face_encoding, tolerance) ==
    IF Len(known_encodings) = 0 THEN empty_comparison_result
    ELSE IF ~validate_encoding(Some(face_encoding)) THEN empty_comparison_result
    ELSE
      LET face_distances == face_distance(known_encodings, face_encoding)
          matches == [i \in 1..Len(face_distances) |->
                         IsMatch(face_distances[i], tolerance)]
          sorted_indices == argsort(face_distances)
          anyMatch == \E i \in 1..Len(matches) : matches[i]
          slice == AlternativeSlice(sorted_indices)
          kept == SelectSeq(slice,
                     LAMBDA idx : IsNearMiss(face_distances[idx], tolerance))
      IN [matches |-> matches,
          face_distances |-> face_distances,
          best_match_index |->
              IF anyMatch THEN Some(sorted_indices[1]) ELSE None,
          best_match_distance |->
              IF anyMatch THEN Some(face_distances[sorted_indices[1]]) ELSE None,
          confidence_score |->
              IF anyMatch
              THEN Some(distance_to_confidence(face_distances[sorted_indices[1]]))
              ELSE None,
          alternative_matches |->
              IF anyMatch
              THEN [k \in 1..Len(kept) |->
                      AlternativeEntry(kept[k], face_distances[kept[k]], tolerance)]
              ELSE <<>>,
          num_compared |-> Len(known_encodings)]

\* FaceMatchResult.get_match_quality_label
get_match_quality_label(found, confidence) ==
    IF ~found \/ IsNone(confidence) THEN "no_match"
    ELSE IF Val(confidence) >= 85 THEN "excellent"
    ELSE IF Val(confidence) >= 75 THEN "good"
    ELSE IF Val(confidence) >= 65 THEN "fair"
    ELSE "poor"

\* the FaceMatchResult dataclass; raised = FALSE: the call returned it
FaceMatchResult(found, student, confidence, match_distance, num_compared, alts) ==
    [raised |-> FALSE, exc |-> "",
     found |-> found, student |-> student, confidence |-> confidence,
     match_distance |-> match_distance, num_compared |-> num_compared,
     alternative_matches |-> alts,
     match_quality |-> IF found
                       THEN Some(get_match_quality_label(found, confidence))
                       ELSE None]

\* the call left by an exception instead of returning
Raised(exc) ==
    [raised |-> TRUE, exc |-> exc,
     found |-> FALSE, student |-> None, confidence |-> None,
     match_distance |-> None, num_compared |-> 0,
     alternative_matches |-> <<>>, match_quality |-> None]

\* the loop of find_matching_student that fills known_encodings and
\* student_map: student_map is keyed by the position in the queryset; a
\* get_encoding that raises ends the loop and the call
RECURSIVE BuildKnown(_, _, _)
BuildKnown(face_encodings_qs, idx, acc) ==
    IF idx > Len(face_encodings_qs) THEN acc
    ELSE IF get_encoding_raises(face_encodings_qs[idx].encoding_data)
    THEN [acc EXCEPT !.raised = TRUE]
    ELSE LET encoding == get_encoding(face_encodings_qs[idx].encoding_data) IN
         IF ~IsNone(encoding) /\ validate_encoding(encoding)
         THEN BuildKnown(face_encodings_qs, idx + 1,
                 [known_encodings |-> Append(acc.known_encodings, Val(encoding)),
                  student_map |-> acc.student_map
                                     @@ (idx :> face_encodings_qs[idx].student),
                  raised |-> FALSE])
         ELSE BuildKnown(face_encodings_qs, idx + 1, acc)

\* `min_confidence is not None and confidence < min_confidence`
BelowMinConfidenceBroken(confidence, min_confidence) ==
    ~IsNone(min_confidence) /\ confidence <= Val(min_confidence)
BelowMinConfidence(confidence, min_confidence) ==
    ~IsNone(min_confidence) /\ confidence < Val(min_confidence)

\* the alternatives of find_matching_student, looked up in student_map
BuildAlternatives(alternative_matches, student_map) ==
    LET known == SelectSeq(alternative_matches,
                     LAMBDA alt : alt.index \in DOMAIN student_map)
    IN [k \in 1..Len(known) |->
          [student |-> student_map[known[k].index],
           confidence |-> known[k].confidence,
           distance |-> known[k].distance,
           is_match |-> known[k].is_match]]

\* FaceMatcher.find_matching_student
find_matching_student(face_encoding, face_encodings_qs, tolerance, min_confidence, return_alternatives) ==
    LET built == BuildKnown(face_encodings_qs, 1,
                    [known_encodings |-> <<>>, student_map |-> <<>>,
                     raised |-> FALSE])
        known_encodings == built.known_encodings
        student_map == built.student_map
    IN
    IF built.raised THEN Raised("ValueError")
    ELSE IF Len(known_encodings) = 0
    THEN FaceMatchResult(FALSE, None, None, None, 0, <<>>)
    ELSE
      LET result == compare_faces(known_encodings, face_encoding, tolerance) IN
      IF ~IsNone(result.best_match_index)
      THEN
        LET confidence == Val(result.confidence_score) IN
        IF BelowMinConfidence(confidence, min_confidence)
        THEN FaceMatchResult(FALSE, None, Some(confidence),
                 result.best_match_distance, Len(known_encodings), <<>>)
        ELSE IF Val(result.best_match_index) \notin DOMAIN student_map
        THEN Raised("KeyError")
        ELSE FaceMatchResult(TRUE,
                 Some(student_map[Val(result.best_match_index)]),
                 Some(confidence), result.best_match_distance,
                 Len(known_encodings),
                 IF return_alternatives
                 THEN BuildAlternatives(result.alternative_matches, student_map)
                 ELSE <<>>)
      ELSE FaceMatchResult(FALSE, None, None,
               IF Len(result.face_distances) > 0
               THEN Some(result.face_distances[1]) ELSE None,
               Len(known_encodings), <<>>)

\* ------------------------------------------------- matcher call inputs
KnownPositions == {20, 70, 90}
MinConfidences == {None, Some(40), Some(50), Some(60)}

OkArray(pos) == [dtype |-> "float32", n |-> ENCODING_DIM, content |-> "ok", pos |-> pos]
ZeroArray == [dtype |-> "float32", n |-> ENCODING_DIM, content |-> "zero", pos |-> 0]

Probes == {OkArray(20), ZeroArray}

StoredBlobs ==
    {Blob("float32", ENCODING_DIM, "ok", p) : p \in KnownPositions}
    \cup {Blob("float64", ENCODING_DIM, "ok", 70),
          Blob("float32", ENCODING_DIM, "nan", 0),
          Blob("float32", ENCODING_DIM, "inf", 0),
          Blob("float32", ENCODING_DIM, "zero", 0),
          Blob("float32", 64, "ok", 20),
          Blob("uint8", 510, "ok", 0),
          EmptyBlob}

SeqsUpTo(S, n) == UNION {[1..k -> S] : k \in 0..n}

\* a queryset of FaceEncoding rows, newest first: one row per student
RowsOf(blobs) ==
    [i \in 1..Len(blobs) |->
        [student |-> Len(blobs) - i + 1, encoding_data |-> blobs[i]]]

CompareInputs ==
    [fn : {"compare_faces"},
     known_encodings : SeqsUpTo({OkArray(p) : p \in KnownPositions}, MaxKnown),
     face_encodings_qs : {<<>>},
     face_encoding : Probes]

FindInputs ==
    [fn : {"find_matching_student"},
     known_encodings : {<<>>},
     face_encodings_qs : {RowsOf(b) : b \in SeqsUpTo(StoredBlobs, MaxRows)},
     face_encoding : Probes]

NoCall == [fn |-> "none", known_encodings |-> <<>>,
           face_encodings_qs |-> <<>>, face_encoding |-> ZeroArray]

NoResults == [cmp |-> [t \in MatchThreshold |-> None], fms |-> None]

\* ---------------------------------------------------- matcher operations
\* a call of FaceMatcher.compare_faces with tolerance t on the inputs
CompareFaces(t) ==
    /\ m_in.fn = "compare_faces"
    /\ IsNone(m_ret.cmp[t])
    /\ m_ret' = [m_ret EXCEPT !.cmp[t] =
                    Some(compare_faces(m_in.known_encodings, m_in.face_encoding, t))]
    /\ UNCHANGED <<m_in, face_encodings, recognition_logs, reqs, reenrolled, last_recog>>
    /\ UNCHANGED libvars

\* a call of FaceMatcher.find_matching_student on the inputs
FindMatchingStudent(t, mc, ra) ==
    /\ m_in.fn = "find_matching_student"
    /\ IsNone(m_ret.fms)
    /\ m_ret' = [m_ret EXCEPT !.fms =
                    Some([tolerance |-> t, min_confidence |-> mc,
                          return_alternatives |-> ra,
                          ret |-> find_matching_student(m_in.face_encoding,
                                      m_in.face_encodings_qs, t, mc, ra)])]
    /\ UNCHANGED <<m_in, face_encodings, recognition_logs, reqs, reenrolled, last_recog>>
    /\ UNCHANGED libvars

\* ------------------------------------------------------ encoding store
Students == 1..NumStudents
SeqStudents == 1..MaxSeqStudents
EnrollPositions == {20, 70}

Ids == DOMAIN face_encodings

\* face_recognition.face_encodings returns float64 arrays; save_encoding
\* stores their bytes as they are
save_encoding(pos) == Blob("float64", ENCODING_DIM, "ok", pos)

\* the unique constraint of the OneToOneField FaceEncoding.student
StudentTakenBroken(rows, s) == FALSE
StudentTaken(rows, s) == \E i \in DOMAIN rows : rows[i].student = s

\* FaceEncoding.objects.filter(student=s)
RowsOfStudent(s) == {i \in Ids : face_encodings[i].student = s}

\* a request in flight: the view, the next statement, and the locals:
\* the student, the id of the row, the vector extracted (enrollment) and
\* the encoding_data of the object loaded by get_object_or_404 (its
\* is_active is assigned before save())
Req(op, pc, student, id, pos, data) ==
    [op |-> op, pc |-> pc, student |-> student, id |-> id, pos |-> pos,
     data |-> data]

InFlight == BagToSet(reqs)
Begin(r) == BagCardinality(reqs) < MaxInFlight /\ reqs' = reqs (+) SetToBag({r})
Move(r, r2) == reqs' = (reqs (-) SetToBag({r})) (+) SetToBag({r2})
End(r) == reqs' = reqs (-) SetToBag({r})

\* IDCardUploadForm.clean_student: a student with an active encoding is
\* rejected
clean_student_ok(s) ==
    ~\E i \in RowsOfStudent(s) : face_encodings[i].is_active

\* enroll_face up to the call of get_or_create: the form of the upload
\* path, extraction and the quality gate of process_enrollment
EnrollStart(path, s, extract, quality_ok, pos) ==
    /\ BagCardinality(reqs) < MaxInFlight
    /\ IF (path = "upload" /\ ~clean_student_ok(s)) \/ extract # "ok" \/ ~quality_ok
       THEN UNCHANGED reqs
       ELSE Begin(Req("enroll", "enroll_get", s, 0, pos, EmptyBlob))
    /\ UNCHANGED <<face_encodings, recognition_logs, reenrolled, last_recog, m_in, m_ret>>
    /\ UNCHANGED libvars

\* get_or_create: the lookup
EnrollGet(r) ==
    /\ r \in InFlight
    /\ r.pc = "enroll_get"
    /\ IF RowsOfStudent(r.student) # {}
       THEN Move(r, [r EXCEPT !.pc = "enroll_save",
                        !.id = CHOOSE i \in RowsOfStudent(r.student) : TRUE])
       ELSE Move(r, [r EXCEPT !.pc = "enroll_create"])
    /\ UNCHANGED <<face_encodings, recognition_logs, reenrolled, last_recog, m_in, m_ret>>
    /\ UNCHANGED libvars

\* get_or_create: the insert with the field defaults (empty
\* encoding_data, is_active true); on a unique violation the existing
\* row is fetched instead
EnrollCreate(r) ==
    /\ r \in InFlight
    /\ r.pc = "enroll_create"
    /\ IF StudentTaken(face_encodings, r.student)
       THEN /\ Move(r, [r EXCEPT !.pc = "enroll_save",
                        !.id = CHOOSE i \in RowsOfStudent(r.student) : TRUE])
            /\ UNCHANGED face_encodings
       ELSE /\ face_encodings' = Append(face_encodings,
                    [student |-> r.student, encoding_data |-> EmptyBlob,
                     is_active |-> TRUE])
            /\ Move(r, [r EXCEPT !.pc = "enroll_save",
                        !.id = Len(face_encodings) + 1])
    /\ UNCHANGED <<recognition_logs, reenrolled, last_recog, m_in, m_ret>>
    /\ UNCHANGED libvars

\* process_enrollment: save_encoding, is_active = True, save()
EnrollSave(r) ==
    /\ r \in InFlight
    /\ r.pc = "enroll_save"
    /\ face_encodings' = [face_encodings EXCEPT ![r.id] =
            [student |-> r.student, encoding_data |-> save_encoding(r.pos),
             is_active |-> TRUE]]
    /\ reenrolled' = (reenrolled \/
            face_encodings[r.id].encoding_data \notin {EmptyBlob, save_encoding(r.pos)})
    /\ End(r)
    /\ UNCHANGED <<recognition_logs, last_recog, m_in, m_ret>>
    /\ UNCHANGED libvars

\* deactivate_encoding: get_object_or_404
DeactivateLoad(id) ==
    /\ id \in Ids
    /\ Begin(Req("deactivate", "deact_save", face_encodings[id].student, id, 0,
                 face_encodings[id].encoding_data))
    /\ UNCHANGED <<face_encodings, recognition_logs, reenrolled, last_recog, m_in, m_ret>>
    /\ UNCHANGED libvars

\* deactivate_encoding: is_active = False, save() of the loaded object
DeactivateSaveBroken(r) ==
    /\ r \in InFlight
    /\ r.pc = "deact_save"
    /\ face_encodings' = [face_encodings EXCEPT ![r.id] =
            [student |-> r.student, encoding_data |-> EmptyBlob, is_active |-> FALSE]]
    /\ End(r)
    /\ UNCHANGED <<recognition_logs, reenrolled, last_recog, m_in, m_ret>>
    /\ UNCHANGED libvars
DeactivateSave(r) ==
    /\ r \in InFlight
    /\ r.pc = "deact_save"
    /\ face_encodings' = [face_encodings EXCEPT ![r.id] =
            [student |-> r.student, encoding_data |-> r.data, is_active |-> FALSE]]
    /\ End(r)
    /\ UNCHANGED <<recognition_logs, reenrolled, last_recog, m_in, m_ret>>
    /\ UNCHANGED libvars

\* activate_encoding: get_object_or_404
ActivateLoad(id) ==
    /\ id \in Ids
    /\ Begin(Req("activate", "act_check", face_encodings[id].student, id, 0,
                 face_encodings[id].encoding_data))
    /\ UNCHANGED <<face_encodings, recognition_logs, reenrolled, last_recog, m_in, m_ret>>
    /\ UNCHANGED libvars

\* activate_encoding: existing.exists() on the other active encodings of
\* the student; a hit ends the request with an error message
ActivateCheck(r) ==
    /\ r \in InFlight
    /\ r.pc = "act_check"
    /\ IF \E i \in RowsOfStudent(r.student) :
             i # r.id /\ face_encodings[i].is_active
       THEN End(r)
       ELSE Move(r, [r EXCEPT !.pc = "act_save"])
    /\ UNCHANGED <<face_encodings, recognition_logs, reenrolled, last_recog, m_in, m_ret>>
    /\ UNCHANGED libvars

\* activate_encoding: is_active = True, save() of the loaded object
ActivateSave(r) ==
    /\ r \in InFlight
    /\ r.pc = "act_save"
    /\ face_encodings' = [face_encodings EXCEPT ![r.id] =
            [student |-> r.student, encoding_data |-> r.data, is_active |-> TRUE]]
    /\ End(r)
    /\ UNCHANGED <<recognition_logs, reenrolled, last_recog, m_in, m_ret>>
    /\ UNCHANGED libvars

\* FaceEncodingAdmin.activate_encodings: queryset.update(is_active=True)
AdminActivate(selected) ==
    /\ selected # {}
    /\ face_encodings' = [i \in Ids |->
            IF i \in selected
            THEN [face_encodings[i] EXCEPT !.is_active = TRUE]
            ELSE face_encodings[i]]
    /\ UNCHANGED <<recognition_logs, reqs, reenrolled, last_recog, m_in, m_ret>>
    /\ UNCHANGED libvars

\* FaceEncodingAdmin.deactivate_encodings: queryset.update(is_active=False)
AdminDeactivate(selected) ==
    /\ selected # {}
    /\ face_encodings' = [i \in Ids |->
            IF i \in selected
            THEN [face_encodings[i] EXCEPT !.is_active = FALSE]
            ELSE face_encodings[i]]
    /\ UNCHANGED <<recognition_logs, reqs, reenrolled, last_recog, m_in, m_ret>>
    /\ UNCHANGED libvars

\* ---------------------------------------------------------- recognition
RecogPositions == {20, 140}
LogSites == {"extract_failed", "multiple_faces", "success", "no_match", "error"}

\* which RecognitionLog.objects.create calls fail during one request:
\* none, the one of the except branch, those of the try block, those of
\* the try block after the multiple-faces log, all
FailureModes ==
    {{}, {"error"}, LogSites \ {"error"}, LogSites \ {"error", "multiple_faces"},
     LogSites}

\* the array the extractor returns for a face at pos
ExtractedArray(pos) ==
    [dtype |-> "float64", n |-> ENCODING_DIM, content |-> "ok", pos |-> pos]

\* FaceEncoding.objects.filter(is_active=True) in the Meta ordering
\* -enrolled_at: newest row first
Reverse(seq) == [i \in 1..Len(seq) |-> seq[Len(seq) + 1 - i]]
ActiveEncodingsBroken == Reverse(face_encodings)
ActiveEncodings == SelectSeq(Reverse(face_encodings), LAMBDA row : row.is_active)

\* utils.find_matching_student(encoding, queryset): the module-level
\* helper the views import; it runs the FaceMatcher with its defaults
find_matching_student_fn(face_encoding, face_encodings_qs) ==
    find_matching_student(face_encoding, face_encodings_qs, STANDARD, None, TRUE)

\* a RecognitionLog row
Log(result, matched_student, confidence) ==
    [result |-> result, matched_student |-> matched_student,
     confidence |-> confidence]

\* what a call of process_recognition_image leaves behind
RecogOutcome(raised, student, confidence, message, created, exception, extract, found) ==
    [raised |-> raised, student |-> student, confidence |-> confidence,
     result_message |-> message, created |-> created,
     exception |-> exception, extract |-> extract, found |-> found]

\* the `except Exception` branch: one more RecognitionLog.objects.create
ExceptBranchBroken(fail_sites, created, student, confidence, extract, found) ==
    RecogOutcome(FALSE, student, confidence, "error", created, TRUE, extract, found)
ExceptBranch(fail_sites, created, student, confidence, extract, found) ==
    IF "error" \in fail_sites
    THEN RecogOutcome(TRUE, None, None, "", created, TRUE, extract, found)
    ELSE RecogOutcome(FALSE, student, confidence, "error",
             Append(created, Log("error", None, None)), TRUE, extract, found)

\* the branch of process_recognition_image after a successful extraction
\* and the multiple-faces log
MatchBranchBroken(fail_sites, created, match_result) ==
    IF match_result.raised
    THEN ExceptBranch(fail_sites, created, None, None, "ok", FALSE)
    ELSE IF match_result.found
    THEN IF "success" \in fail_sites
         THEN ExceptBranch(fail_sites, created, match_result.student,
                  match_result.confidence, "ok", TRUE)
         ELSE RecogOutcome(FALSE, match_result.student, match_result.confidence,
                  "success",
                  Append(created, Log("success", match_result.student,
                                      match_result.confidence)),
                  FALSE, "ok", TRUE)
    ELSE RecogOutcome(FALSE, None, None, "no_match", created, FALSE, "ok", FALSE)
MatchBranch(fail_sites, created, match_result) ==
    IF match_result.raised
    THEN ExceptBranch(fail_sites, created, None, None, "ok", FALSE)
    ELSE IF match_result.found
    THEN IF "success" \in fail_sites
         THEN ExceptBranch(fail_sites, created, match_result.student,
                  match_result.confidence, "ok", TRUE)
         ELSE RecogOutcome(FALSE, match_result.student, match_result.confidence,
                  "success",
                  Append(created, Log("success", match_result.student,
                                      match_result.confidence)),
                  FALSE, "ok", TRUE)
    ELSE IF "no_match" \in fail_sites
         THEN ExceptBranch(fail_sites, created, None, None, "ok", FALSE)
         ELSE RecogOutcome(FALSE, None, None, "no_match",
                  Append(created, Log("no_match", None, match_result.confidence)),
                  FALSE, "ok", FALSE)

\* process_recognition_image: open_fails = the image cannot be opened,
\* extract = outcome of extract_face_from_image, fail_sites = the
\* RecognitionLog.objects.create calls that fail
process_recognition_image(open_fails, extract, num_faces, pos, fail_sites) ==
    IF open_fails
    THEN ExceptBranch(fail_sites, <<>>, None, None, extract, FALSE)
    ELSE IF extract # "ok"
    THEN IF "extract_failed" \in fail_sites
         THEN ExceptBranch(fail_sites, <<>>, None, None, extract, FALSE)
         ELSE RecogOutcome(FALSE, None, None, extract,
                  <<Log(IF extract = "no_face" THEN "no_face" ELSE "error",
                        None, None)>>,
                  FALSE, extract, FALSE)
    ELSE IF num_faces > 1 /\ "multiple_faces" \in fail_sites
    THEN ExceptBranch(fail_sites, <<>>, None, None, extract, FALSE)
    ELSE MatchBranch(fail_sites,
             IF num_faces > 1 THEN <<Log("multiple_faces", None, None)>> ELSE <<>>,
             find_matching_student_fn(ExtractedArray(pos), ActiveEncodings))

NoRecog == [called |-> FALSE, n_before |-> 0, had_inactive |-> FALSE,
            out |-> RecogOutcome(FALSE, None, None, "", <<>>, FALSE, "ok", FALSE)]

\* some stored vector is left out of the queryset of active rows
HasInactiveVector ==
    \E i \in 1..Len(face_encodings) :
       ~face_encodings[i].is_active /\ face_encodings[i].encoding_data # EmptyBlob

\* a request to recognize_face that reaches process_recognition_image
RecognizeBroken(open_fails, extract, num_faces, pos, fail_sites) ==
    /\ Len(recognition_logs) + 2 <= MaxLogs
    /\ LET out == process_recognition_image(open_fails, extract, num_faces,
                                            pos, fail_sites)
       IN /\ recognition_logs' =
                [i \in 1..Len(recognition_logs) |-> Log("error", None, None)]
                \o out.created
          /\ last_recog' = [called |-> TRUE, n_before |-> Len(recognition_logs),
                            had_inactive |-> HasInactiveVector,
                            out |-> [out EXCEPT !.created = <<>>]]
    /\ UNCHANGED <<face_encodings, reqs, reenrolled, m_in, m_ret>>
    /\ UNCHANGED libvars
Recognize(open_fails, extract, num_faces, pos, fail_sites) ==
    /\ Len(recognition_logs) + 2 <= MaxLogs
    /\ LET out == process_recognition_image(open_fails, extract, num_faces,
                                            pos, fail_sites)
       IN /\ recognition_logs' = recognition_logs \o out.created
          /\ last_recog' = [called |-> TRUE, n_before |-> Len(recognition_logs),
                            had_inactive |-> HasInactiveVector,
                            out |-> [out EXCEPT !.created = <<>>]]
    /\ UNCHANGED <<face_encodings, reqs, reenrolled, m_in, m_ret>>
    /\ UNCHANGED libvars

\* --------------------------------------------------------- specifications
facevars == <<face_encodings, recognition_logs, reqs, reenrolled, last_recog, m_in, m_ret>>
vars == <<facevars, libvars>>

Init ==
    /\ face_encodings = <<>>
    /\ recognition_logs = <<>>
    /\ reqs = EmptyBag
    /\ reenrolled = FALSE
    /\ LibIdle
    /\ last_recog = NoRecog
    /\ m_in = NoCall
    /\ m_ret = NoResults

\* a new request arrives, an enrollment being for a student of studs
StartStepOn(studs) ==
    \/ \E path \in {"upload", "webcam"}, s \in studs, pos \in EnrollPositions :
          EnrollStart(path, s, "ok", TRUE, pos)
    \/ \E path \in {"upload", "webcam"}, s \in studs :
          \/ EnrollStart(path, s, "ok", FALSE, 20)
          \/ EnrollStart(path, s, "no_face", TRUE, 20)
    \/ \E id \in Ids : DeactivateLoad(id)
    \/ \E id \in Ids : ActivateLoad(id)

StartStep == StartStepOn(Students)

\* the next statement of the request r in flight
RequestStep(r) ==
    \/ EnrollGet(r)
    \/ EnrollCreate(r)
    \/ EnrollSave(r)
    \/ DeactivateSave(r)
    \/ ActivateCheck(r)
    \/ ActivateSave(r)

AdminStep ==
    \/ \E selected \in SUBSET Ids : AdminActivate(selected)
    \/ \E selected \in SUBSET Ids : AdminDeactivate(selected)

\* requests interleave at the granularity of their database queries
Next ==
    \/ StartStep
    \/ \E r \in InFlight : RequestStep(r)
    \/ AdminStep

Spec == Init /\ [][Next]_vars

\* requests served one after the other
NoneInFlight == reqs = EmptyBag

SeqNext ==
    \/ NoneInFlight /\ StartStepOn(SeqStudents)
    \/ \E r \in InFlight : RequestStep(r)
    \/ NoneInFlight /\ AdminStep

SeqSpec == Init /\ [][SeqNext]_vars

\* recognition requests against a table the store can be in: at most one
\* row per student, each one empty (between the insert and the save of an
\* enrollment) or holding an enrolled vector, active or not
TableRows ==
    [student : 1..MaxTableRows,
     encoding_data : {EmptyBlob} \cup {save_encoding(p) : p \in EnrollPositions},
     is_active : BOOLEAN]

Tables ==
    {t \in SeqsUpTo(TableRows, MaxTableRows) :
        \A i \in 1..Len(t), j \in 1..Len(t) : i # j => t[i].student # t[j].student}

RecogInit ==
    /\ face_encodings \in Tables
    /\ recognition_logs = <<>>
    /\ reqs = EmptyBag
    /\ reenrolled = FALSE
    /\ LibIdle
    /\ last_recog = NoRecog
    /\ m_in = NoCall
    /\ m_ret = NoResults

\* a recognition request whose log writes fail as one of modes says
RecognizeStepOn(modes) ==
    \E fail_sites \in modes :
       \/ Recognize(TRUE, "ok", 1, 20, fail_sites)
       \/ \E extract \in {"no_face", "error"} :
              Recognize(FALSE, extract, 0, 20, fail_sites)
       \/ \E num_faces \in {1, 2}, pos \in RecogPositions :
              Recognize(FALSE, "ok", num_faces, pos, fail_sites)

RecognizeStep == RecognizeStepOn(FailureModes)

\* one recognition request per table
RecogNext == recognition_logs = <<>> /\ RecognizeStep

RecogSpec == RecogInit /\ [][RecogNext]_vars

\* calls of the matcher on drawn arguments
MatchInit ==
    /\ face_encodings = <<>>
    /\ recognition_logs = <<>>
    /\ reqs = EmptyBag
    /\ reenrolled = FALSE
    /\ LibIdle
    /\ last_recog = NoRecog
    /\ m_in \in CompareInputs \cup FindInputs
    /\ m_ret = NoResults

MatchNext ==
    \/ \E t \in MatchThreshold : CompareFaces(t)
    \/ \E t \in MatchThreshold, mc \in MinConfidences, ra \in BOOLEAN :
           FindMatchingStudent(t, mc, ra)

MatchSpec == MatchInit /\ [][MatchNext]_vars

\* ============================================================ properties
\* ------------------------------------------------ matcher: helper notions
\* distance of known encoding i of a compare_faces call to the probe
KnownDist(i) == Abs(m_in.known_encodings[i].pos - m_in.face_encoding.pos)

\* the candidates a compare_faces call compared
ComparedKnown(r) == 1..r.num_compared

\* rows of the queryset whose stored encoding is present and valid
ValidRows ==
    {i \in 1..Len(m_in.face_encodings_qs) :
        LET e == get_encoding(m_in.face_encodings_qs[i].encoding_data) IN
        /\ ~IsNone(e)
        /\ Val(e).n = ENCODING_DIM
        /\ Val(e).content = "ok"}

RowDist(i) ==
    Abs(Val(get_encoding(m_in.face_encodings_qs[i].encoding_data)).pos
        - m_in.face_encoding.pos)

ProbeValid == m_in.face_encoding.n = ENCODING_DIM /\ m_in.face_encoding.content = "ok"

\* rows find_matching_student measured against the probe
ComparedRows == IF ProbeValid THEN ValidRows ELSE {}

FmsCalled == m_in.fn = "find_matching_student" /\ ~IsNone(m_ret.fms)
Fms == Val(m_ret.fms)

\* C3: with no min_confidence, compare_faces and find_matching_student
\* report a match iff some compared candidate has distance <= tolerance,
\* and the best match is then the candidate of minimum distance.
C3_MatchIffWithinTolerance ==
    /\ \A t \in MatchThreshold :
         ~IsNone(m_ret.cmp[t]) =>
           LET r == Val(m_ret.cmp[t]) IN
           /\ ~IsNone(r.best_match_index)
                <=> \E i \in ComparedKnown(r) : KnownDist(i) <= t
           /\ ~IsNone(r.best_match_index) =>
                /\ Val(r.best_match_index) \in ComparedKnown(r)
                /\ \A i \in ComparedKnown(r) :
                      KnownDist(Val(r.best_match_index)) <= KnownDist(i)
                /\ r.best_match_distance
                      = Some(KnownDist(Val(r.best_match_index)))
                /\ Val(r.best_match_distance) <= t
    /\ (FmsCalled /\ IsNone(Fms.min_confidence)) =>
           /\ ~Fms.ret.raised
           /\ Fms.ret.found
                <=> \E i \in ComparedRows : RowDist(i) <= Fms.tolerance
           /\ Fms.ret.found =>
                /\ \E i \in ComparedRows :
                      Fms.ret.match_distance = Some(RowDist(i))
                /\ \A i \in ComparedRows :
                      Val(Fms.ret.match_distance) <= RowDist(i)

\* C4: find_matching_student leaves every missing or invalid stored
\* encoding out of the comparison and returns a FaceMatchResult without
\* raising, whatever the mix and order; num_compared counts the valid ones.
C4_InvalidStoredExcludedNoRaise ==
    FmsCalled =>
        /\ ~Fms.ret.raised
        /\ Fms.ret.num_compared = Cardinality(ValidRows)

\* C8: nearest candidate within tolerance: confidence below
\* min_confidence gives found=false with no student but the rejected
\* confidence, distance and num_compared; otherwise found=true.
C8_MinConfidenceGate ==
    (/\ FmsCalled
     /\ ~IsNone(Fms.min_confidence)
     /\ \E i \in ComparedRows : RowDist(i) <= Fms.tolerance) =>
        LET nearest == CHOOSE i \in ComparedRows :
                          \A j \in ComparedRows : RowDist(i) <= RowDist(j)
            conf == Max(0, Min(100, 100 - RowDist(nearest)))
        IN IF conf < Val(Fms.min_confidence)
           THEN /\ ~Fms.ret.raised
                /\ ~Fms.ret.found
                /\ IsNone(Fms.ret.student)
                /\ Fms.ret.confidence = Some(conf)
                /\ Fms.ret.match_distance = Some(RowDist(nearest))
                /\ Fms.ret.num_compared = Cardinality(ValidRows)
           ELSE /\ ~Fms.ret.raised
                /\ Fms.ret.found

\* C9: at most 5 alternatives, each one of the next-nearest candidates
\* after the best match, within 1.2 x tolerance, scored from its own
\* distance, is_match iff within tolerance, never the best match; none
\* without a best match.
C9_AlternativeMatches ==
    \A t \in MatchThreshold :
      ~IsNone(m_ret.cmp[t]) =>
        LET r == Val(m_ret.cmp[t])
            alts == r.alternative_matches
        IN /\ Len(alts) <= 5
           /\ IsNone(r.best_match_index) => alts = <<>>
           /\ \A k \in 1..Len(alts) :
                /\ alts[k].index \in ComparedKnown(r)
                /\ alts[k].index # Val(r.best_match_index)
                /\ \A k2 \in 1..Len(alts) :
                      k2 # k => alts[k2].index # alts[k].index
                /\ alts[k].distance = KnownDist(alts[k].index)
                /\ alts[k].distance >= Val(r.best_match_distance)
                /\ Cardinality({j \in ComparedKnown(r) \ {Val(r.best_match_index)} :
                        KnownDist(j) < alts[k].distance}) < 5
                /\ 10 * alts[k].distance <= 12 * t
                /\ alts[k].confidence = Max(0, Min(100, 100 - alts[k].distance))
                /\ alts[k].is_match <=> (alts[k].distance <= t)

\* C9 witness: more than six candidates, five alternatives listed, some
\* within tolerance and some near-misses beyond it
C9_Witness ==
    \E t \in MatchThreshold :
      /\ ~IsNone(m_ret.cmp[t])
      /\ Val(m_ret.cmp[t]).num_compared > 6
      /\ Len(Val(m_ret.cmp[t]).alternative_matches) = 5
      /\ \E k \in 1..5 : Val(m_ret.cmp[t]).alternative_matches[k].is_match
      /\ \E k \in 1..5 : ~Val(m_ret.cmp[t]).alternative_matches[k].is_match

MatchSet(t) ==
    {i \in 1..Len(Val(m_ret.cmp[t]).matches) : Val(m_ret.cmp[t]).matches[i]}

\* C10: for tolerances t1 < t2 on the same known encodings and probe, the
\* candidates marked as matches with t2 include those marked with t1; a
\* candidate is marked iff its distance <= tolerance.
C10_ToleranceMonotone ==
    \A t1 \in MatchThreshold, t2 \in MatchThreshold :
      (t1 < t2 /\ ~IsNone(m_ret.cmp[t1]) /\ ~IsNone(m_ret.cmp[t2])) =>
        /\ MatchSet(t1) \subseteq MatchSet(t2)
        /\ \A i \in ComparedKnown(Val(m_ret.cmp[t1])) :
              (i \in MatchSet(t1)) <=> (KnownDist(i) <= t1)

\* C10 witness: two tolerances compared, the larger one marks strictly more
C10_Witness ==
    \E t1 \in MatchThreshold, t2 \in MatchThreshold :
      /\ t1 < t2
      /\ ~IsNone(m_ret.cmp[t1])
      /\ ~IsNone(m_ret.cmp[t2])
      /\ MatchSet(t1) # {}
      /\ MatchSet(t1) # MatchSet(t2)

\* ------------------------------------------------------- encoding store
ActiveRows(s) ==
    {i \in Ids : face_encodings[i].student = s /\ face_encodings[i].is_active}

\* C1: in every reachable state each student has at most one FaceEncoding
\* row with is_active = true.
C1_OneActivePerStudent ==
    \A s \in Students : Cardinality(ActiveRows(s)) <= 1

\* C1 witness: a student has been enrolled and re-enrolled, the row has
\* then been deactivated and keeps its vector, and an activation of it
\* has passed its check and is about to write is_active = true
C1_Witness ==
    \E s \in Students :
        /\ reenrolled
        /\ \E i \in RowsOfStudent(s) :
               /\ ~face_encodings[i].is_active
               /\ face_encodings[i].encoding_data # EmptyBlob
               /\ \E r \in InFlight : r.pc = "act_save" /\ r.id = i

\* C2: the existence check and the write of is_active = true of
\* activate_encoding are one atomic conditional update: a request that has
\* passed the check writes before any other activation for the same
\* student passes it, so no two activations hold a passed check
\* ('no active record') at once and then both write.
C2_AtomicActivation ==
    \A r \in InFlight :
      r.pc = "act_save" =>
        /\ ~\E i \in RowsOfStudent(r.student) :
               i # r.id /\ face_encodings[i].is_active
        /\ CopiesIn(r, reqs) = 1
        /\ ~\E r2 \in InFlight \ {r} :
               r2.pc = "act_save" /\ r2.student = r.student

RowCount(rows, s) == Cardinality({i \in DOMAIN rows : rows[i].student = s})

\* the request r in flight ends with this step
Ends(r) == CopiesIn(r, reqs') < CopiesIn(r, reqs)

\* C7: once a student has a FaceEncoding row, every enroll, deactivate and
\* activate leaves exactly one row for that student; deactivate_encoding
\* changes nothing but is_active (to false); a re-enrollment writes the
\* new vector into the existing row and adds no row.
C7_OneRecordRetained ==
    [][ /\ \A s \in SeqStudents :
              RowCount(face_encodings, s) >= 1 => RowCount(face_encodings', s) = 1
        /\ \A i \in Ids :
              /\ i \in DOMAIN face_encodings'
              /\ face_encodings'[i].student = face_encodings[i].student
        /\ \A r \in InFlight :
              (r.pc = "deact_save" /\ Ends(r)) =>
                 face_encodings' =
                    [face_encodings EXCEPT ![r.id].is_active = FALSE]
        /\ \A r \in InFlight :
              (r.pc = "enroll_save" /\ Ends(r)) =>
                 /\ Len(face_encodings') = Len(face_encodings)
                 /\ face_encodings'[r.id] =
                       [student |-> r.student,
                        encoding_data |-> Blob("float64", ENCODING_DIM, "ok", r.pos),
                        is_active |-> TRUE]
                 /\ \A i \in Ids \ {r.id} : face_encodings'[i] = face_encodings[i]
      ]_vars

\* C7 witness: a re-enrollment has replaced a vector and a deactivated row
\* still holds its vector
C7_Witness ==
    /\ reenrolled
    /\ \E i \in Ids : /\ ~face_encodings[i].is_active
                      /\ face_encodings[i].encoding_data # EmptyBlob
                      /\ RowCount(face_encodings, face_encodings[i].student) = 1

\* ----------------------------------------------------------- recognition
\* the RecognitionLog rows the latest call has created
CreatedByLast ==
    SubSeq(recognition_logs, last_recog.n_before + 1, Len(recognition_logs))

\* C5: every call of process_recognition_image that returns has appended
\* at least one RecognitionLog row, and the last one carries the outcome:
\* error after an exception, no_face / error after a failed extraction,
\* success with the student and the confidence after a match, no_match
\* otherwise.
C5_EveryAttemptLogged ==
    (last_recog.called /\ ~last_recog.out.raised) =>
        LET out == last_recog.out
            final == recognition_logs[Len(recognition_logs)]
        IN /\ Len(CreatedByLast) >= 1
           /\ out.exception => final = Log("error", None, None)
           /\ (~out.exception /\ out.extract = "no_face") =>
                 final = Log("no_face", None, None)
           /\ (~out.exception /\ out.extract = "error") =>
                 final = Log("error", None, None)
           /\ (~out.exception /\ out.extract = "ok" /\ out.found) =>
                 /\ ~IsNone(out.student)
                 /\ ~IsNone(out.confidence)
                 /\ out.result_message = "success"
                 /\ final = Log("success", out.student, out.confidence)
           /\ (~out.exception /\ out.extract = "ok" /\ ~out.found) =>
                 /\ out.result_message = "no_match"
                 /\ final.result = "no_match"
                 /\ IsNone(final.matched_student)

\* C5 witness: a call on an image with two faces has returned a match and
\* left the multiple-faces row and the success row
C5_Witness ==
    /\ last_recog.called
    /\ ~last_recog.out.raised
    /\ last_recog.out.result_message = "success"
    /\ Len(CreatedByLast) = 2
    /\ CreatedByLast[1].result = "multiple_faces"
    /\ CreatedByLast[2].result = "success"

\* C6: process_recognition_image returns its tuple and lets no exception
\* out, whichever RecognitionLog.objects.create calls fail.
C6_LogFailureSwallowed ==
    last_recog.called => ~last_recog.out.raised

\* =============================================== distance to confidence
\* calls of FaceMatcher._distance_to_confidence; distances and
\* confidences are in hundredths and percent
Distances == 0..MaxDistance

ConfInputs == [fn : {"distance_to_confidence"}, distance : Distances]

\* the state before a call of a function on drawn arguments
CallInit(inputs) ==
    /\ face_encodings = <<>>
    /\ recognition_logs = <<>>
    /\ reqs = EmptyBag
    /\ reenrolled = FALSE
    /\ LibIdle
    /\ last_recog = NoRecog
    /\ m_in \in inputs
    /\ m_ret = None

ConfInit == CallInit(ConfInputs)

DistanceToConfidence ==
    /\ m_in.fn = "distance_to_confidence"
    /\ IsNone(m_ret)
    /\ m_ret' = Some(distance_to_confidence(m_in.distance))
    /\ UNCHANGED <<m_in, face_encodings, recognition_logs, reqs, reenrolled, last_recog>>
    /\ UNCHANGED libvars

ConfSpec == ConfInit /\ [][DistanceToConfidence]_vars

\* C11: _distance_to_confidence returns 100 for distance 0, 0 for every
\* distance >= 1 and (1 - distance) x 100 in between; the result lies
\* within [0,100] and no larger distance has a larger confidence.
C11_ConfidenceClampedLinear ==
    (m_in.fn = "distance_to_confidence" /\ ~IsNone(m_ret)) =>
        LET d == m_in.distance
            c == Val(m_ret)
        IN /\ d = 0 => c = 100
           /\ d >= 100 => c = 0
           /\ (0 < d /\ d < 100) => c = 100 - d
           /\ 0 <= c /\ c <= 100
           /\ \A d2 \in Distances :
                 d2 >= d => distance_to_confidence(d2) <= c

\* C11 witness: a call strictly between the two clamps has returned
C11_Witness ==
    /\ m_in.fn = "distance_to_confidence"
    /\ ~IsNone(m_ret)
    /\ 0 < m_in.distance /\ m_in.distance < 100
    /\ 0 < Val(m_ret) /\ Val(m_ret) < 100

\* ============================================ identical-probe scenario
\* find_matching_student on a probe identical to one of n valid stored
\* vectors: row k holds the probe's vector, the rows before position j
\* are near misses and the others are far away; rows alternate between
\* the float32 and the legacy float64 layout
\* the probe is at position 20; a near miss is at distance 0.65 and a
\* far candidate at distance 0.90
ScenarioBlobs(n, k, j) ==
    [i \in 1..n |->
        Blob(IF i % 2 = 0 THEN "float64" ELSE "float32", ENCODING_DIM, "ok",
             IF i = k THEN 20
             ELSE IF i < j THEN 20 + 65
             ELSE 20 + 90)]

ScenarioInputs ==
    {[fn |-> "find_matching_student",
      known_encodings |-> <<>>,
      face_encodings_qs |-> RowsOf(ScenarioBlobs(n, k, j)),
      face_encoding |-> OkArray(20)] :
        n \in 1..MaxCandidates, k \in 1..MaxCandidates, j \in 1..(MaxCandidates + 1)}

ScenarioInit ==
    /\ face_encodings = <<>>
    /\ recognition_logs = <<>>
    /\ reqs = EmptyBag
    /\ reenrolled = FALSE
    /\ LibIdle
    /\ last_recog = NoRecog
    /\ m_in \in ScenarioInputs
    /\ m_ret = NoResults

ScenarioNext ==
    \E t \in MatchThreshold, mc \in MinConfidences, ra \in BOOLEAN :
        FindMatchingStudent(t, mc, ra)

ScenarioSpec == ScenarioInit /\ [][ScenarioNext]_vars

\* the rows whose stored vector is identical to the probe
IdenticalRows == {i \in ValidRows : RowDist(i) = 0}

\* C12: when the probe is valid, every stored candidate is valid and the
\* probe is identical to exactly one of them, find_matching_student
\* returns found = true for that candidate's student with confidence 100
\* and num_compared = the number of candidates, and every alternative
\* it lists has a distance <= 1.2 x tolerance.
C12_IdenticalProbeFound ==
    (/\ FmsCalled
     /\ ProbeValid
     /\ ValidRows = 1..Len(m_in.face_encodings_qs)
     /\ Cardinality(IdenticalRows) = 1) =>
        LET k == CHOOSE i \in IdenticalRows : TRUE IN
        /\ ~Fms.ret.raised
        /\ Fms.ret.found
        /\ Fms.ret.student = Some(m_in.face_encodings_qs[k].student)
        /\ Fms.ret.confidence = Some(100)
        /\ Fms.ret.num_compared = Len(m_in.face_encodings_qs)
        /\ \A a \in 1..Len(Fms.ret.alternative_matches) :
              10 * Fms.ret.alternative_matches[a].distance <= 12 * Fms.tolerance

\* C12 witness: the scenario with the full number of candidates, the
\* identical one neither first nor last, and alternatives listed
C12_Witness ==
    /\ FmsCalled
    /\ Len(m_in.face_encodings_qs) = MaxCandidates
    /\ ValidRows = 1..MaxCandidates
    /\ \E k \in 2..(MaxCandidates - 1) : IdenticalRows = {k}
    /\ Fms.ret.found
    /\ Fms.ret.confidence = Some(100)
    /\ Len(Fms.ret.alternative_matches) >= 2

\* ================================================ empty candidate set
\* C13: with no stored encodings, or none that is valid,
\* find_matching_student returns found = false and num_compared = 0, and
\* compare_faces on an empty list returns the empty result with
\* best_match_index None and num_compared 0; neither raises.
C13_EmptyCandidateSet ==
    /\ (FmsCalled /\ ValidRows = {}) =>
          /\ ~Fms.ret.raised
          /\ ~Fms.ret.found
          /\ Fms.ret.num_compared = 0
    /\ (m_in.fn = "compare_faces" /\ Len(m_in.known_encodings) = 0) =>
          \A t \in MatchThreshold :
             ~IsNone(m_ret.cmp[t]) =>
                /\ IsNone(Val(m_ret.cmp[t]).best_match_index)
                /\ Val(m_ret.cmp[t]).num_compared = 0
                /\ Val(m_ret.cmp[t]).matches = <<>>
                /\ Val(m_ret.cmp[t]).alternative_matches = <<>>

\* ------------------------------------------ owner of the matched encoding
\* rows find_matching_student compared that lie at distance d from the probe
RowsAtDistance(d) == {i \in ComparedRows : RowDist(i) = d}

\* C27: whenever find_matching_student returns found = true, the student
\* it returns owns a stored encoding of minimum distance to the probe, and
\* every alternative's student owns an encoding at that alternative's
\* distance, also when rows earlier in the queryset were skipped.
C27_StudentOwnsMatchedEncoding ==
    (FmsCalled /\ ~Fms.ret.raised /\ Fms.ret.found) =>
        /\ \E i \in ComparedRows :
              /\ \A j \in ComparedRows : RowDist(i) <= RowDist(j)
              /\ Fms.ret.student = Some(m_in.face_encodings_qs[i].student)
        /\ \A k \in 1..Len(Fms.ret.alternative_matches) :
              \E i \in RowsAtDistance(Fms.ret.alternative_matches[k].distance) :
                 Fms.ret.alternative_matches[k].student
                    = m_in.face_encodings_qs[i].student

\* ==================================================== encoding codec
\* arrays given to validate_encoding and save_encoding: float arrays may
\* hold NaN or infinite elements, integer arrays may not
FloatTypes == {"float16", "float32", "float64"}
IntTypes == {"int32", "int64"}
ArrayLens == {64, ENCODING_DIM, 2 * ENCODING_DIM}

Arrays ==
    [dtype : FloatTypes, n : ArrayLens, content : {"ok", "nan", "inf", "zero"},
     pos : EnrollPositions]
    \cup [dtype : IntTypes, n : ArrayLens, content : {"ok", "zero"},
          pos : EnrollPositions]

\* ndarray.tobytes()
tobytes(arr) == Blob(arr.dtype, arr.n, arr.content, arr.pos)

\* FaceEncoding.save_encoding: ValidationError unless the shape is (128,)
save_encoding_call(encoding_array) ==
    IF encoding_array.n # ENCODING_DIM
    THEN [raised |-> TRUE, encoding_data |-> EmptyBlob]
    ELSE [raised |-> FALSE, encoding_data |-> tobytes(encoding_array)]

\* values of the encoding_data field: the bytes of an array, or bytes of
\* a length that is no array of 4-byte elements
StoredData ==
    {tobytes(a) : a \in Arrays}
    \cup {EmptyBlob, Blob("uint8", 130, "ok", 0), Blob("uint8", 510, "ok", 0),
          Blob("uint8", 1022, "ok", 0)}

CodecInputs ==
    [fn : {"validate_encoding"}, encoding : {None} \cup {Some(a) : a \in Arrays},
     encoding_data : {EmptyBlob}]
    \cup [fn : {"save_encoding"}, encoding : {Some(a) : a \in Arrays},
          encoding_data : {EmptyBlob}]
    \cup [fn : {"get_encoding"}, encoding : {None}, encoding_data : StoredData]

NoCodecResults == [valid |-> None, saved |-> None, loaded |-> None]

CodecInit ==
    /\ face_encodings = <<>>
    /\ recognition_logs = <<>>
    /\ reqs = EmptyBag
    /\ reenrolled = FALSE
    /\ LibIdle
    /\ last_recog = NoRecog
    /\ m_in \in CodecInputs
    /\ m_ret = NoCodecResults

\* a call of EncodingValidator.validate_encoding
ValidateEncoding ==
    /\ m_in.fn = "validate_encoding"
    /\ IsNone(m_ret.valid)
    /\ m_ret' = [m_ret EXCEPT !.valid = Some(validate_encoding(m_in.encoding))]
    /\ UNCHANGED <<m_in, face_encodings, recognition_logs, reqs, reenrolled, last_recog>>
    /\ UNCHANGED libvars

\* a call of FaceEncoding.save_encoding
SaveEncoding ==
    /\ m_in.fn = "save_encoding"
    /\ IsNone(m_ret.saved)
    /\ m_ret' = [m_ret EXCEPT !.saved = Some(save_encoding_call(Val(m_in.encoding)))]
    /\ UNCHANGED <<m_in, face_encodings, recognition_logs, reqs, reenrolled, last_recog>>
    /\ UNCHANGED libvars

\* a call of FaceEncoding.get_encoding: on the bytes the preceding
\* save_encoding stored, or on the stored bytes drawn
GetEncoding ==
    /\ IsNone(m_ret.loaded)
    /\ \/ /\ m_in.fn = "save_encoding"
          /\ ~IsNone(m_ret.saved)
          /\ ~Val(m_ret.saved).raised
          /\ m_ret' = [m_ret EXCEPT !.loaded =
                          Some(get_encoding_call(Val(m_ret.saved).encoding_data))]
       \/ /\ m_in.fn = "get_encoding"
          /\ m_ret' = [m_ret EXCEPT !.loaded =
                          Some(get_encoding_call(m_in.encoding_data))]
    /\ UNCHANGED <<m_in, face_encodings, recognition_logs, reqs, reenrolled, last_recog>>
    /\ UNCHANGED libvars

CodecNext ==
    \/ ValidateEncoding
    \/ SaveEncoding
    \/ GetEncoding

CodecSpec == CodecInit /\ [][CodecNext]_vars

C15_RoundTrip ==
    (/\ m_in.fn = "save_encoding"
     /\ ~IsNone(m_ret.saved)
     /\ ~Val(m_ret.saved).raised
     /\ ~IsNone(m_ret.loaded)) =>
        /\ ~Val(m_ret.loaded).raised
        /\ Val(m_ret.loaded).value =
              Some([dtype |-> "float32", n |-> ENCODING_DIM,
                    content |-> Val(m_in.encoding).content,
                    pos |-> Val(m_in.encoding).pos])

\* C16: get_encoding returns the 128 values downcast to float32 for
\* stored data holding 128 64-bit floats, the values unchanged for
\* stored data holding 128 32-bit floats, and None for stored data of
\* any other length; it never returns an array of another length.
C16_LegacyLayoutDetected ==
    (m_in.fn = "get_encoding" /\ ~IsNone(m_ret.loaded)) =>
        LET data == m_in.encoding_data
            out == Val(m_ret.loaded)
        IN /\ ~out.raised
           /\ (data.dtype = "float64" /\ data.n = ENCODING_DIM) =>
                 out.value = Some([dtype |-> "float32", n |-> ENCODING_DIM,
                                   content |-> data.content, pos |-> data.pos])
           /\ (data.dtype = "float32" /\ data.n = ENCODING_DIM) =>
                 out.value = Some([dtype |-> "float32", n |-> ENCODING_DIM,
                                   content |-> data.content, pos |-> data.pos])
           /\ NBytes(data) \notin {4 * ENCODING_DIM, 8 * ENCODING_DIM} =>
                 IsNone(out.value)
           /\ ~IsNone(out.value) => Val(out.value).n = ENCODING_DIM

\* ====================================================== image quality
\* Sub-scores are in half points (200 = score 100) and the composite
\* quality_score is in units of 0.005 (20000 = score 100), so that the
\* weighted sum of the code is exact on integer inputs.

\* `max(0, 100 - abs(brightness - 128) * 0.5)`
brightness_scoreBroken(brightness) == Max(0, 200 - Abs(brightness - 100))
brightness_score(brightness) == Max(0, 200 - Abs(brightness - 128))

\* `min(100, (sharpness / 200) * 100)`
sharpness_score(sharpness) == Min(200, sharpness)

\* `min(100, (contrast / 100) * 100)`
contrast_score(contrast) == Min(200, 2 * contrast)

\* `min(100, (face_size / 200) * 100)` for a face, 50 without one
size_scoreBroken(face_size) == IF face_size > 0 THEN face_size ELSE 100
size_score(face_size) == IF face_size > 0 THEN Min(200, face_size) ELSE 100

\* QualityCalculator._calculate_quality_score: weights 0.25, 0.35, 0.20,
\* 0.20
calculate_quality_score(brightness, sharpness, contrast, face_size) ==
    25 * brightness_score(brightness) + 35 * sharpness_score(sharpness)
    + 20 * contrast_score(contrast) + 20 * size_score(face_size)

\* QualityCalculator._create_error_metrics
create_error_metricsBroken(error_msg) ==
    [brightness |-> 0, sharpness |-> 0, contrast |-> 0, face_size |-> 0,
     aspect_ratio |-> <<0, 1>>, quality_score |-> 0, is_good_quality |-> FALSE,
     quality_issues |-> <<>>, recommendations |-> <<error_msg>>]
create_error_metrics(error_msg) ==
    [brightness |-> 0, sharpness |-> 0, contrast |-> 0, face_size |-> 0,
     aspect_ratio |-> <<0, 1>>, quality_score |-> 0, is_good_quality |-> FALSE,
     quality_issues |-> <<"error">>, recommendations |-> <<error_msg>>]

\* `len(quality_issues) == 0 and quality_score >= 70`
IsGoodQualityBroken(quality_issues, quality_score) ==
    Len(quality_issues) = 0 \/ quality_score >= 70 * 200
IsGoodQuality(quality_issues, quality_score) ==
    Len(quality_issues) = 0 /\ quality_score >= 70 * 200

\* the issue and the recommendation each analysis of calculate_quality
\* adds; a finding is <<issue, recommendation>> with "" for none
BrightnessFinding(brightness) ==
    IF brightness < MIN_BRIGHTNESS
    THEN <<"too_dark", "Increase lighting or use flash">>
    ELSE IF brightness > MAX_BRIGHTNESS
    THEN <<"too_bright", "Reduce lighting or avoid direct light">>
    ELSE IF brightness < OPTIMAL_BRIGHTNESS_MIN
    THEN <<"", "Could benefit from more light">>
    ELSE IF brightness > OPTIMAL_BRIGHTNESS_MAX
    THEN <<"", "Could benefit from less light">>
    ELSE <<"", "">>

SharpnessFinding(sharpness) ==
    IF sharpness < MIN_SHARPNESS
    THEN <<"blurry", "Hold camera steady or increase shutter speed">>
    ELSE IF sharpness < OPTIMAL_SHARPNESS
    THEN <<"", "Image could be sharper">>
    ELSE <<"", "">>

ContrastFinding(contrast) ==
    IF contrast < MIN_CONTRAST
    THEN <<"low_contrast", "Improve lighting conditions">>
    ELSE <<"", "">>

FaceSizeFindingBroken(face_size) ==
    IF face_size > 0 /\ face_size <= MIN_FACE_SIZE
    THEN <<"face_too_small", "Move closer to camera">>
    ELSE IF face_size > 0 /\ face_size < OPTIMAL_FACE_SIZE
    THEN <<"", "Could move slightly closer">>
    ELSE <<"", "">>
FaceSizeFinding(face_size) ==
    IF face_size > 0 /\ face_size < MIN_FACE_SIZE
    THEN <<"face_too_small", "Move closer to camera">>
    ELSE IF face_size > 0 /\ face_size < OPTIMAL_FACE_SIZE
    THEN <<"", "Could move slightly closer">>
    ELSE <<"", "">>

\* aspect_ratio = face_size / face_height (1.0 without a positive
\* height), as the fraction <<numerator, denominator>>
AspectRatio(face_size, face_height) ==
    IF face_height > 0 THEN <<face_size, face_height>> ELSE <<1, 1>>

AspectRatioFinding(face_size, aspect_ratio) ==
    IF /\ face_size > 0
       /\ \/ 10 * aspect_ratio[1] < MIN_ASPECT_RATIO * aspect_ratio[2]
          \/ 10 * aspect_ratio[1] > MAX_ASPECT_RATIO * aspect_ratio[2]
    THEN <<"unusual_aspect_ratio", "Ensure full face is visible">>
    ELSE <<"", "">>

\* _analyze_landmarks: an eye line tilted by more than 15 degrees
LandmarkFinding(landmarks) ==
    IF landmarks = "tilted"
    THEN <<"face_tilted", "Keep face level with camera">>
    ELSE <<"", "">>

Issues(findings) ==
    LET kept == SelectSeq(findings, LAMBDA f : f[1] # "")
    IN [i \in 1..Len(kept) |-> kept[i][1]]

Recommendations(findings) ==
    LET kept == SelectSeq(findings, LAMBDA f : f[2] # "")
    IN [i \in 1..Len(kept) |-> kept[i][2]]

\* QualityCalculator.calculate_quality. image: "unreadable" (cv2.imread
\* returns None), "raises" (a step of the computation raises an
\* exception with the text error_text) or "ok" with the measured
\* brightness, sharpness and contrast; face_location is None or
\* Some(<<width, height>>) of the bounding box; landmarks is "none",
\* "level" or "tilted"
calculate_quality(image, error_text, brightness, sharpness, contrast, face_location, landmarks) ==
    IF image = "unreadable" THEN create_error_metrics("Could not load image")
    ELSE IF image = "raises" THEN create_error_metrics(error_text)
    ELSE
      LET face_size == IF IsNone(face_location) THEN 0 ELSE Val(face_location)[1]
          aspect_ratio == IF IsNone(face_location) THEN <<1, 1>>
                          ELSE AspectRatio(face_size, Val(face_location)[2])
          findings == <<BrightnessFinding(brightness),
                        SharpnessFinding(sharpness),
                        ContrastFinding(contrast),
                        FaceSizeFinding(face_size),
                        AspectRatioFinding(face_size, aspect_ratio),
                        LandmarkFinding(landmarks)>>
          quality_issues == Issues(findings)
          quality_score == calculate_quality_score(brightness, sharpness,
                                                   contrast, face_size)
      IN [brightness |-> brightness, sharpness |-> sharpness,
          contrast |-> contrast, face_size |-> face_size,
          aspect_ratio |-> aspect_ratio, quality_score |-> quality_score,
          is_good_quality |-> IsGoodQuality(quality_issues, quality_score),
          quality_issues |-> quality_issues,
          recommendations |-> Recommendations(findings)]

\* ------------------------------------------------ quality call inputs
Measurements ==
    [brightness : {0, 39, 40, 79, 128, 181, 220, 221, 255},
     sharpness : {0, 74, 75, 149, 200, 400},
     contrast : {0, 24, 25, 60, 100, 150}]

FaceLocations ==
    {None} \cup {Some(<<w, h>>) : w \in {0, 50, 99, 100, 199, 200, 300},
                                  h \in {0, 100, 200, 400}}

QualityInputs ==
    {[fn |-> "calculate_quality", image |-> "ok", error_text |-> "",
      brightness |-> m.brightness, sharpness |-> m.sharpness,
      contrast |-> m.contrast, face_location |-> loc, landmarks |-> lm,
      face_size |-> 0] :
        m \in Measurements, loc \in FaceLocations,
        lm \in {"none", "level", "tilted"}}
    \cup {[fn |-> "calculate_quality", image |-> img, error_text |-> txt,
           brightness |-> 0, sharpness |-> 0, contrast |-> 0,
           face_location |-> loc, landmarks |-> "none", face_size |-> 0] :
             img \in {"unreadable", "raises"},
             txt \in {"OpenCV error", "not enough values to unpack"},
             loc \in {None, Some(<<200, 200>>)}}

ScoreInputs ==
    {[fn |-> "calculate_quality_score", image |-> "ok", error_text |-> "",
      brightness |-> b, sharpness |-> sh, contrast |-> c,
      face_location |-> None, landmarks |-> "none", face_size |-> fs] :
        b \in 0..255, sh \in {0, 1, 75, 199, 200, 201, 400},
        c \in {0, 1, 50, 99, 100, 101, 150},
        fs \in {-5, 0, 1, 100, 199, 200, 201, 300}}

QualityInit == CallInit(QualityInputs \cup ScoreInputs)

\* a call of QualityCalculator.calculate_quality
CalculateQuality ==
    /\ m_in.fn = "calculate_quality"
    /\ IsNone(m_ret)
    /\ m_ret' = Some(calculate_quality(m_in.image, m_in.error_text,
                        m_in.brightness, m_in.sharpness, m_in.contrast,
                        m_in.face_location, m_in.landmarks))
    /\ UNCHANGED <<m_in, face_encodings, recognition_logs, reqs, reenrolled, last_recog>>
    /\ UNCHANGED libvars

\* a call of QualityCalculator._calculate_quality_score
CalculateQualityScore ==
    /\ m_in.fn = "calculate_quality_score"
    /\ IsNone(m_ret)
    /\ m_ret' = Some(calculate_quality_score(m_in.brightness, m_in.sharpness,
                        m_in.contrast, m_in.face_size))
    /\ UNCHANGED <<m_in, face_encodings, recognition_logs, reqs, reenrolled, last_recog>>
    /\ UNCHANGED libvars

QualityNext ==
    \/ CalculateQuality
    \/ CalculateQualityScore

QualitySpec == QualityInit /\ [][QualityNext]_vars

QualityReturned == m_in.fn = "calculate_quality" /\ ~IsNone(m_ret)
Metrics == Val(m_ret)

\* C17: calculate_quality sets is_good_quality to true iff the list of
\* quality issues is empty and the composite quality_score is >= 70; a
\* score >= 70 together with an issue yields false.
C17_GoodQualityIff ==
    QualityReturned =>
        /\ Metrics.is_good_quality =
              (Metrics.quality_issues = <<>> /\ Metrics.quality_score >= 70 * 200)
        /\ (Metrics.quality_score >= 70 * 200 /\ Metrics.quality_issues # <<>>)
              => ~Metrics.is_good_quality

\* C17 witness: a score of at least 70 together with an issue
C17_Witness ==
    /\ QualityReturned
    /\ Metrics.quality_score >= 70 * 200
    /\ Metrics.quality_issues # <<>>
    /\ ~Metrics.is_good_quality

\* C18: when the image cannot be read or a step of the computation
\* raises, calculate_quality returns metrics whose numeric fields are all
\* zero, with is_good_quality false, quality_issues exactly <<"error">>
\* and the error text as the only recommendation.
C18_ErrorMetrics ==
    (QualityReturned /\ m_in.image # "ok") =>
        /\ Metrics.brightness = 0
        /\ Metrics.sharpness = 0
        /\ Metrics.contrast = 0
        /\ Metrics.face_size = 0
        /\ Metrics.aspect_ratio[1] = 0
        /\ Metrics.quality_score = 0
        /\ ~Metrics.is_good_quality
        /\ Metrics.quality_issues = <<"error">>
        /\ Metrics.recommendations =
              <<IF m_in.image = "unreadable" THEN "Could not load image"
                ELSE m_in.error_text>>

\* C18 witness: a step has raised while a face location was given
C18_Witness ==
    /\ QualityReturned
    /\ m_in.image = "raises"
    /\ ~IsNone(m_in.face_location)
    /\ Metrics.quality_issues = <<"error">>

\* C19: for brightness in 0..255, sharpness >= 0, contrast >= 0 and every
\* face size, _calculate_quality_score returns 0.25 x brightness score +
\* 0.35 x sharpness score + 0.20 x contrast score + 0.20 x size score,
\* every sub-score lies within [0,100] and so does the composite score.
C19_CompositeScoreInRange ==
    (m_in.fn = "calculate_quality_score" /\ ~IsNone(m_ret)) =>
        LET b == brightness_score(m_in.brightness)
            sh == sharpness_score(m_in.sharpness)
            c == contrast_score(m_in.contrast)
            z == size_score(m_in.face_size)
        IN /\ \A x \in {b, sh, c, z} : 0 <= x /\ x <= 100 * 2
           /\ Val(m_ret) = 25 * b + 35 * sh + 20 * c + 20 * z
           /\ 0 <= Val(m_ret) /\ Val(m_ret) <= 100 * 200

\* C19 witness: a face wider than the saturating size, every other
\* sub-score strictly inside its range
C19_Witness ==
    /\ m_in.fn = "calculate_quality_score"
    /\ ~IsNone(m_ret)
    /\ m_in.face_size > OPTIMAL_FACE_SIZE
    /\ m_in.brightness = 255
    /\ m_in.sharpness = 75
    /\ m_in.contrast = 50
    /\ Val(m_ret) = 25 * 73 + 35 * 75 + 20 * 100 + 20 * 200

SaturatedScenario ==
    /\ QualityReturned
    /\ m_in.image = "ok"
    /\ m_in.brightness = 128
    /\ m_in.sharpness = 200
    /\ m_in.contrast = 100
    /\ Metrics.face_size = 200

Saturated ==
    /\ brightness_score(Metrics.brightness) = 100 * 2
    /\ sharpness_score(Metrics.sharpness) = 100 * 2
    /\ contrast_score(Metrics.contrast) = 100 * 2
    /\ size_score(Metrics.face_size) = 100 * 2
    /\ Metrics.quality_score = 100 * 200

\* C20: with brightness = 128, sharpness = 200, contrast = 100 and
\* face_size = 200 every sub-score saturates at 100, the composite score
\* is 100 and is_good_quality is true.
C20_SaturatedScenarioGood ==
    SaturatedScenario => (Saturated /\ Metrics.is_good_quality)

\* C20 as amended: with those four measurements every sub-score
\* saturates at 100 and the composite score is 100; is_good_quality is
\* true when, in addition, the aspect ratio of the face box lies within
\* [0.6, 1.4] and the landmarks show no tilted face, and false otherwise.
C20_SaturatedScenarioAmended ==
    SaturatedScenario =>
        /\ Saturated
        /\ Metrics.is_good_quality =
              (/\ 10 * Metrics.aspect_ratio[1] >= MIN_ASPECT_RATIO * Metrics.aspect_ratio[2]
               /\ 10 * Metrics.aspect_ratio[1] <= MAX_ASPECT_RATIO * Metrics.aspect_ratio[2]
               /\ m_in.landmarks # "tilted")

\* C20 witness: the scenario with a square face box and level landmarks
C20_Witness ==
    /\ SaturatedScenario
    /\ Metrics.aspect_ratio = <<200, 200>>
    /\ m_in.landmarks = "level"
    /\ Metrics.quality_score = 100 * 200
    /\ Metrics.is_good_quality

InSeq(x, seq) == \E i \in 1..Len(seq) : seq[i] = x

\* C21: for a detected region (positive width) passed to
\* calculate_quality, a width below 100 px adds the issue face_too_small,
\* a width from 100 up to but not including 200 px adds only a
\* recommendation and no issue, and a width of 200 px or more adds
\* neither.
C21_FaceSizeFindings ==
    (/\ QualityReturned
     /\ m_in.image = "ok"
     /\ ~IsNone(m_in.face_location)
     /\ Val(m_in.face_location)[1] > 0) =>
        LET w == Val(m_in.face_location)[1]
            small == InSeq("face_too_small", Metrics.quality_issues)
            closer == InSeq("Move closer to camera", Metrics.recommendations)
            slightly == InSeq("Could move slightly closer", Metrics.recommendations)
        IN /\ w < 100 => (small /\ closer /\ ~slightly)
           /\ (100 <= w /\ w < 200) => (~small /\ ~closer /\ slightly)
           /\ w >= 200 => (~small /\ ~closer /\ ~slightly)

\* C21 witness: a region exactly 100 px wide has got the recommendation
\* and no size issue
C21_Witness ==
    /\ QualityReturned
    /\ m_in.image = "ok"
    /\ m_in.face_location = Some(<<100, 100>>)
    /\ InSeq("Could move slightly closer", Metrics.recommendations)
    /\ ~InSeq("face_too_small", Metrics.quality_issues)

\* ============================================= store and recognition
\* enrollment, management and recognition requests served one after the
\* other on one store; the log writes of a recognition all succeed or all
\* fail
AuditNext ==
    \/ NoneInFlight /\ StartStep
    \/ \E r \in InFlight : RequestStep(r)
    \/ NoneInFlight /\ AdminStep
    \/ NoneInFlight /\ RecognizeStepOn({{}, LogSites})

AuditSpec == Init /\ [][AuditNext]_vars

\* C22: audit entries are immutable: no step of the enrollment or the
\* recognition flow updates or deletes an existing RecognitionLog entry;
\* the entries only grow in number and every existing entry keeps its
\* result, matched student and confidence.
C22_AuditEntriesImmutable ==
    [][ /\ Len(recognition_logs') >= Len(recognition_logs)
        /\ \A i \in 1..Len(recognition_logs) :
              recognition_logs'[i] = recognition_logs[i]
      ]_vars

\* C22 witness: a recognition has added an entry behind existing ones
\* while a student is enrolled
C22_Witness ==
    /\ last_recog.called
    /\ last_recog.n_before >= 1
    /\ Len(recognition_logs) > last_recog.n_before
    /\ face_encodings # <<>>


\* --------------------------------------------- inactive rows are not matched
\* C28: process_recognition_image compares the probe only with the rows
\* that are active when it is called: the student a recognition reports
\* owns a row that is active at that call, so a deactivated student is not
\* reported until the row is active again.
C28_OnlyActiveRecognized ==
    [][ (recognition_logs' # recognition_logs
            /\ ~IsNone(last_recog'.out.student)) =>
          \E i \in 1..Len(face_encodings) :
             /\ face_encodings[i].is_active
             /\ face_encodings[i].student = Val(last_recog'.out.student) ]_vars

\* a recognition that read a face while a stored vector was inactive and no
\* row was left to compare with
C28_Witness ==
    /\ last_recog.called
    /\ last_recog.had_inactive
    /\ last_recog.out.extract = "ok"
    /\ last_recog.out.result_message = "no_match"
    /\ IsNone(last_recog.out.student)


\* ------------------------------------------- enrollment over an active row
\* C29: enrollment of a student who already has an active encoding is
\* rejected on the upload and on the webcam path of enroll_face: a row
\* that is active and holds a vector keeps its vector and its flag through
\* every step that does not deactivate it.
C29_ActiveEncodingKept ==
    [][ \A i \in Ids :
          (face_encodings[i].is_active
              /\ face_encodings[i].encoding_data # EmptyBlob
              /\ face_encodings'[i].is_active) =>
             face_encodings'[i] = face_encodings[i] ]_vars


\* ============================================================ lending desk
\* ------------------------------------------------------------- the tables
BookIds == {1, 2}
LibStudents == {1}

\* a Book row; a deleted book keeps its id with exists = FALSE
Book(quantity) == [exists |-> TRUE, quantity |-> quantity]

\* an IssuedBook row
IssuedBook(id, student, book, issued_date, expiry_date, returned_date, fine_amount) ==
    [id |-> id, student |-> student, book |-> book,
     issued_date |-> issued_date, expiry_date |-> expiry_date,
     returned_date |-> returned_date, fine_amount |-> fine_amount,
     fine_paid |-> FALSE]

IssueIds == {issued_books[i].id : i \in 1..Len(issued_books)}
IssueRow(id) == issued_books[CHOOSE i \in 1..Len(issued_books) : issued_books[i].id = id]
RECURSIVE MaxId(_)
MaxId(rows) ==
    IF rows = <<>> THEN 0
    ELSE LET m == MaxId(Tail(rows)) IN
         IF Head(rows).id > m THEN Head(rows).id ELSE m
NextIssueId == MaxId(issued_books) + 1

\* IssuedBook.objects.filter(returned_date__isnull=True)
Unreturned == SelectSeq(issued_books, LAMBDA ib : IsNone(ib.returned_date))

\* Book.currently_issued_count, available_quantity, is_available
currently_issued_count(b) ==
    Len(SelectSeq(Unreturned, LAMBDA ib : ib.book = b))
available_quantity(b) == books[b].quantity - currently_issued_count(b)
is_availableBroken(b) == TRUE
is_available(b) == available_quantity(b) > 0

\* Book.clean on an existing book whose quantity is set to q
book_clean_ok(b, q) == ~(q < currently_issued_count(b))

\* Student.active_issues_count, get_overdue_books, can_issue_more_books
active_issues_count(s) ==
    Len(SelectSeq(Unreturned, LAMBDA ib : ib.student = s))
get_overdue_books(s) ==
    SelectSeq(Unreturned, LAMBDA ib : ib.student = s /\ ib.expiry_date < today)
can_issue_more_books(s) ==
    IF ~students[s].is_active THEN FALSE
    ELSE IF active_issues_count(s) >= MAX_BOOKS_ALLOWED THEN FALSE
    ELSE IF Len(get_overdue_books(s)) > 0 THEN FALSE
    ELSE TRUE

\* IssuedBook.is_overdue, days_until_due, calculate_fine
is_overdue(ib) ==
    IF ~IsNone(ib.returned_date) THEN FALSE ELSE today > ib.expiry_date
days_until_due(ib) == ib.expiry_date - today
calculate_fine(ib) ==
    IF ~IsNone(ib.returned_date) THEN ib.fine_amount
    ELSE IF is_overdue(ib) THEN Abs(days_until_due(ib)) * FINE_PER_DAY
    ELSE 0

\* ---------------------------------------------------- requests in flight
\* a lending request between its validation and its database write: the
\* view, the book, the student, the issue id, the object the form loaded
\* and the quantity posted
LibReq(op, book, student, issue, obj, quantity) ==
    [op |-> op, book |-> book, student |-> student, issue |-> issue,
     obj |-> obj, quantity |-> quantity]

LibInFlight == BagToSet(lib_reqs)
LibBegin(r) == lib_reqs' = lib_reqs (+) SetToBag({r})
LibEnd(r) == lib_reqs' = lib_reqs (-) SetToBag({r})
LibRoom == BagCardinality(lib_reqs) < MaxInFlight

\* the response to a request on books, and to one on an issue
Response(op, book_ids, status) ==
    [NoResponse EXCEPT !.op = op, !.book_ids = book_ids, !.status = status]
IssueResponse(op, issue, status) ==
    [NoResponse EXCEPT !.op = op, !.issue = issue, !.status = status]

\* a request that ends in its validation: only the response is left
Answer(response) ==
    /\ lib_ret' = response
    /\ UNCHANGED <<books, students, issued_books, lib_reqs, today>>

\* a request that passes its validation and goes on to its write
Proceed(r) ==
    /\ LibBegin(r)
    /\ UNCHANGED <<books, students, issued_books, today, lib_ret>>

\* IssuedBook.save of a new row: expiry_date is today + 14 days
CreateIssue(student, book) ==
    issued_books' = Append(issued_books,
        IssuedBook(NextIssueId, student, book, today, today + LOAN_DAYS, None, 0))

\* save() of a loaded IssuedBook: all its fields are written to its row
SaveIssue(obj) ==
    issued_books' = [i \in 1..Len(issued_books) |->
        IF issued_books[i].id = obj.id THEN obj ELSE issued_books[i]]

\* ------------------------------------------------------------ issue_book
\* IssueBookForm.clean
IssueBookForm_clean(b, s) ==
    /\ books[b].exists
    /\ is_available(b)
    /\ ~\E i \in 1..Len(Unreturned) :
           Unreturned[i].student = s /\ Unreturned[i].book = b
    /\ students[s].is_active
    /\ can_issue_more_books(s)

\* the issue_book view up to transaction.atomic(): form.is_valid()
IssueBookValidate(b, s) ==
    /\ LibRoom
    /\ IF IssueBookForm_clean(b, s)
       THEN Proceed(LibReq("issue_book", b, s, 0, None, 0))
       ELSE Answer(Response("issue_book", {b}, "invalid"))
    /\ UNCHANGED facevars

\* the issue_book view inside transaction.atomic(): the final validation
\* and IssuedBook.save
IssueBookAtomic(r, max_rows) ==
    /\ r \in LibInFlight
    /\ r.op = "issue_book"
    /\ Len(issued_books) < max_rows
    /\ IF ~can_issue_more_books(r.student)
       THEN /\ lib_ret' = Response("issue_book", {r.book}, "rejected")
            /\ UNCHANGED issued_books
       ELSE /\ CreateIssue(r.student, r.book)
            /\ lib_ret' = Response("issue_book", {r.book}, "issued")
    /\ LibEnd(r)
    /\ UNCHANGED <<books, students, today>>
    /\ UNCHANGED facevars

\* IssueBookSerializer: validate_book_id and, when a student_id is given,
\* validate_student_id
IssueBookSerializer_valid(book_id, student_id) ==
    /\ books[book_id].exists
    /\ is_available(book_id)
    /\ ~IsNone(student_id) => can_issue_more_books(Val(student_id))

\* IssuedBookViewSet.issue_book up to transaction.atomic(): the serializer
\* and the choice of the student (the user's own profile without student_id)
ApiIssueBookValidate(book_id, student_id, user) ==
    /\ LibRoom
    /\ IF IssueBookSerializer_valid(book_id, student_id)
       THEN Proceed(LibReq("api_issue_book", book_id,
                IF IsNone(student_id) THEN user ELSE Val(student_id),
                0, None, 0))
       ELSE Answer(Response("api_issue_book", {book_id}, "invalid"))
    /\ UNCHANGED facevars

\* IssuedBookViewSet.issue_book inside transaction.atomic():
\* IssuedBook.objects.create
ApiIssueBookCreate(r, max_rows) ==
    /\ r \in LibInFlight
    /\ r.op = "api_issue_book"
    /\ Len(issued_books) < max_rows
    /\ CreateIssue(r.student, r.book)
    /\ lib_ret' = Response("api_issue_book", {r.book}, "issued")
    /\ LibEnd(r)
    /\ UNCHANGED <<books, students, today>>
    /\ UNCHANGED facevars

\* ----------------------------------------------------------- return_book
\* the statements of both return paths on the loaded object: returned_date
\* is assigned first, then is_overdue() and calculate_fine() are asked
ReturnedObject(obj) ==
    LET issued_book == [obj EXCEPT !.returned_date = Some(today)] IN
    IF is_overdue(issued_book)
    THEN [issued_book EXCEPT !.fine_amount = calculate_fine(issued_book)]
    ELSE issued_book

\* the return_book view up to transaction.atomic(): ReturnBookForm offers
\* the unreturned issues and loads the chosen one
ReturnBookValidate(id) ==
    /\ LibRoom
    /\ IF id \in IssueIds /\ IsNone(IssueRow(id).returned_date)
       THEN Proceed(LibReq("return_book", 0, 0, id, Some(IssueRow(id)), 0))
       ELSE Answer(IssueResponse("return_book", id, "invalid"))
    /\ UNCHANGED facevars

\* the return_book view inside transaction.atomic()
ReturnBookAtomic(r) ==
    /\ r \in LibInFlight
    /\ r.op = "return_book"
    /\ SaveIssue(ReturnedObject(Val(r.obj)))
    /\ lib_ret' = IssueResponse("return_book", r.issue, "returned")
    /\ LibEnd(r)
    /\ UNCHANGED <<books, students, today>>
    /\ UNCHANGED facevars

\* IssuedBookViewSet.return_book up to get_object_or_404:
\* ReturnBookSerializer.validate_issued_book_id
ApiReturnBookValidate(id) ==
    /\ LibRoom
    /\ IF id \in IssueIds /\ IsNone(IssueRow(id).returned_date)
       THEN Proceed(LibReq("api_return_book", 0, 0, id, None, 0))
       ELSE Answer(IssueResponse("api_return_book", id, "invalid"))
    /\ UNCHANGED facevars

\* IssuedBookViewSet.return_book from get_object_or_404 on
ApiReturnBookAtomic(r) ==
    /\ r \in LibInFlight
    /\ r.op = "api_return_book"
    /\ IF r.issue \in IssueIds
       THEN /\ SaveIssue(ReturnedObject(IssueRow(r.issue)))
            /\ lib_ret' = IssueResponse("api_return_book", r.issue, "returned")
       ELSE /\ lib_ret' = IssueResponse("api_return_book", r.issue, "not_found")
            /\ UNCHANGED issued_books
    /\ LibEnd(r)
    /\ UNCHANGED <<books, students, today>>
    /\ UNCHANGED facevars

\* ------------------------------------------------------------- edit_book
\* the edit_book view up to form.save(commit=False): EditBookForm with the
\* validators of Book.quantity and Book.clean
EditBookValidate(b, q) ==
    /\ LibRoom
    /\ books[b].exists
    /\ IF q >= 1 /\ book_clean_ok(b, q)
       THEN Proceed(LibReq("edit_book", b, 0, 0, None, q))
       ELSE Answer(Response("edit_book", {b}, "invalid"))
    /\ UNCHANGED facevars

\* the edit_book view from full_clean() on
EditBookSave(r) ==
    /\ r \in LibInFlight
    /\ r.op = "edit_book"
    /\ IF book_clean_ok(r.book, r.quantity)
       THEN /\ books' = [books EXCEPT ![r.book].quantity = r.quantity]
            /\ lib_ret' = Response("edit_book", {r.book}, "saved")
       ELSE /\ lib_ret' = Response("edit_book", {r.book}, "rejected")
            /\ UNCHANGED books
    /\ LibEnd(r)
    /\ UNCHANGED <<students, issued_books, today>>
    /\ UNCHANGED facevars

\* ---------------------------------------------------------------- delete
\* Book.delete of the books in sel: IssuedBook.book cascades
DeleteBooks(sel) ==
    /\ books' = [b \in DOMAIN books |->
                    IF b \in sel THEN [books[b] EXCEPT !.exists = FALSE]
                    ELSE books[b]]
    /\ issued_books' = SelectSeq(issued_books, LAMBDA ib : ib.book \notin sel)

\* the check of delete_book and of BookViewSet.destroy, and the delete
DeleteCheckedBroken(op, b) ==
    /\ lib_reqs = EmptyBag
    /\ books[b].exists
    /\ DeleteBooks({b})
    /\ lib_ret' = Response(op, {b}, "deleted")
    /\ UNCHANGED <<students, lib_reqs, today>>
    /\ UNCHANGED facevars
DeleteChecked(op, b) ==
    /\ lib_reqs = EmptyBag
    /\ books[b].exists
    /\ IF currently_issued_count(b) > 0
       THEN /\ lib_ret' = Response(op, {b}, "rejected")
            /\ UNCHANGED <<books, issued_books>>
       ELSE /\ DeleteBooks({b})
            /\ lib_ret' = Response(op, {b}, "deleted")
    /\ UNCHANGED <<students, lib_reqs, today>>
    /\ UNCHANGED facevars

delete_book(myid) == DeleteChecked("delete_book", myid)
destroy(pk) == DeleteChecked("destroy", pk)

\* bulk_delete_books
bulk_delete_books(book_ids) ==
    /\ lib_reqs = EmptyBag
    /\ IF book_ids = {}
       THEN /\ lib_ret' = Response("bulk_delete_books", book_ids, "none_selected")
            /\ UNCHANGED <<books, issued_books>>
       ELSE IF \E i \in 1..Len(Unreturned) : Unreturned[i].book \in book_ids
       THEN /\ lib_ret' = Response("bulk_delete_books", book_ids, "rejected")
            /\ UNCHANGED <<books, issued_books>>
       ELSE /\ DeleteBooks(book_ids)
            /\ lib_ret' = Response("bulk_delete_books", book_ids, "deleted")
    /\ UNCHANGED <<students, lib_reqs, today>>
    /\ UNCHANGED facevars

\* ------------------------------------------------------------ renew_book
\* the field days of the POST: request.POST.get('days', 14) through int()
Days(n) == [kind |-> "number", n |-> n]
RenewInputs ==
    {NoDays, [kind |-> "text", n |-> 0]} \cup {Days(n) : n \in {0, 1, 14, 30, 31}}

int_raises(days) == days.kind = "text"
days_to_extend(days) == IF days.kind = "missing" THEN 14 ELSE days.n

\* the test of renew_book on the days asked for
ExtensionRefusedBroken(days) == days < 1 \/ days >= 30
ExtensionRefused(days) == days < 1 \/ days > 30

RenewResponse(issue, method, days, status) ==
    [NoResponse EXCEPT !.op = "renew_book", !.issue = issue,
                       !.method = method, !.days = days, !.status = status]

\* renew_book
renew_book(issued_book_id, method, days) ==
    /\ lib_reqs = EmptyBag
    /\ issued_book_id \in IssueIds
    /\ IssueRow(issued_book_id).expiry_date + 30 <= MaxExpiry
    /\ LET issued_book == IssueRow(issued_book_id) IN
       IF ~IsNone(issued_book.returned_date)
       THEN /\ lib_ret' = RenewResponse(issued_book_id, method, days,
                                        "already_returned")
            /\ UNCHANGED issued_books
       ELSE IF method # "POST"
       THEN /\ lib_ret' = RenewResponse(issued_book_id, method, days, "redirect")
            /\ UNCHANGED issued_books
       ELSE IF int_raises(days)
       THEN /\ lib_ret' = RenewResponse(issued_book_id, method, days, "error")
            /\ UNCHANGED issued_books
       ELSE IF ExtensionRefused(days_to_extend(days))
       THEN /\ lib_ret' = RenewResponse(issued_book_id, method, days,
                                        "out_of_range")
            /\ UNCHANGED issued_books
       ELSE /\ SaveIssue([issued_book EXCEPT !.expiry_date =
                              issued_book.expiry_date + days_to_extend(days)])
            /\ lib_ret' = RenewResponse(issued_book_id, method, days, "renewed")
    /\ UNCHANGED <<books, students, lib_reqs, today>>
    /\ UNCHANGED facevars

\* -------------------------------------------------------- specifications
\* the face-recognition subsystem serves nothing
FaceIdle ==
    /\ face_encodings = <<>>
    /\ recognition_logs = <<>>
    /\ reqs = EmptyBag
    /\ reenrolled = FALSE
    /\ last_recog = NoRecog
    /\ m_in = NoCall
    /\ m_ret = NoResults

\* quantities a book is added or edited with
IssueQuantities == {1, MAX_BOOKS_ALLOWED + 1}

\* rows the IssuedBook table grows to when students issue concurrently
IssueRowsCap == MAX_BOOKS_ALLOWED + MaxIssued

\* one book and one active student; issue, return and edit requests
\* interleave between their validation and their write
LibraryInit ==
    /\ FaceIdle
    /\ books = [b \in {1} |-> Book(1)]
    /\ students = [s \in LibStudents |-> [is_active |-> TRUE]]
    /\ issued_books = <<>>
    /\ lib_reqs = EmptyBag
    /\ today = 0
    /\ lib_ret = NoResponse

LibraryNext ==
    \/ \E b \in DOMAIN books, s \in LibStudents : IssueBookValidate(b, s)
    \/ \E b \in DOMAIN books, s \in LibStudents :
          \/ ApiIssueBookValidate(b, None, s)
          \/ ApiIssueBookValidate(b, Some(s), s)
    \/ \E id \in IssueIds : ReturnBookValidate(id)
    \/ \E id \in IssueIds : ApiReturnBookValidate(id)
    \/ \E b \in DOMAIN books, q \in IssueQuantities : EditBookValidate(b, q)
    \/ \E r \in LibInFlight :
          \/ IssueBookAtomic(r, IssueRowsCap)
          \/ ApiIssueBookCreate(r, IssueRowsCap)
          \/ ReturnBookAtomic(r)
          \/ ApiReturnBookAtomic(r)
          \/ EditBookSave(r)

LibrarySpec == LibraryInit /\ [][LibraryNext]_vars

\* tables the desk can be in: every book with one or two copies, up to
\* MaxIssued issues made on day 0 or day 2, some of them returned on day 10,
\* no book issued beyond its quantity
DeskRows ==
    {IssuedBook(0, s, b, d, d + LOAN_DAYS, ret, 0) :
        s \in LibStudents, b \in BookIds, d \in {0, 2}, ret \in {None, Some(10)}}

DeskTables ==
    {[i \in 1..Len(t) |-> [t[i] EXCEPT !.id = i]] : t \in SeqsUpTo(DeskRows, MaxIssued)}

DeskDays == {14, 16, 30}

DeskInit ==
    /\ FaceIdle
    /\ books \in [BookIds -> {Book(1), Book(2)}]
    /\ students = [s \in LibStudents |-> [is_active |-> TRUE]]
    /\ issued_books \in DeskTables
    /\ \A b \in BookIds : currently_issued_count(b) <= books[b].quantity
    /\ lib_reqs = EmptyBag
    /\ today \in DeskDays
    /\ lib_ret = NoResponse

\* the desk serves one request after the other
DeskNext ==
    \/ \E id \in IssueIds : lib_reqs = EmptyBag /\ ReturnBookValidate(id)
    \/ \E id \in IssueIds : lib_reqs = EmptyBag /\ ApiReturnBookValidate(id)
    \/ \E r \in LibInFlight : ReturnBookAtomic(r) \/ ApiReturnBookAtomic(r)
    \/ \E b \in BookIds : delete_book(b) \/ destroy(b)
    \/ \E book_ids \in SUBSET BookIds : bulk_delete_books(book_ids)
    \/ \E id \in IssueIds : renew_book(id, "GET", NoDays)
    \/ \E id \in IssueIds, days \in RenewInputs : renew_book(id, "POST", days)

DeskSpec == DeskInit /\ [][DeskNext]_vars


\* ============================================== lending desk: properties
\* C23: in every reachable state a student holds at most MAX_BOOKS_ALLOWED
\* issued books that are not returned, whichever path issued them and
\* however the issue requests interleave.
C23_AtMostMaxBooksHeld ==
    \A s \in DOMAIN students : active_issues_count(s) <= MAX_BOOKS_ALLOWED

\* C24: for every book the unreturned issues never exceed its quantity
\* (available_quantity is never negative), under every interleaving of
\* issue, return and edit requests.
C24_IssuedWithinQuantity ==
    \A b \in DOMAIN books :
       /\ currently_issued_count(b) <= books[b].quantity
       /\ available_quantity(b) >= 0


\* C25: a returned issue carries returned_date and the fine of its return:
\* the days between its expiry date and its return times FINE_PER_DAY when
\* it came back after the expiry date, 0 when it came back on or before it.
C25_FineStoredOnReturn ==
    \A i \in 1..Len(issued_books) :
       LET ib == issued_books[i] IN
       ~IsNone(ib.returned_date) =>
          ib.fine_amount =
             IF Val(ib.returned_date) > ib.expiry_date
             THEN (Val(ib.returned_date) - ib.expiry_date) * FINE_PER_DAY
             ELSE 0


\* the requests that delete books
DeleteOps == {"delete_book", "destroy", "bulk_delete_books"}

\* C26: a book with an issued copy that is not returned is never deleted:
\* delete_book, bulk_delete_books and the API destroy reject a request that
\* names such a book and leave every book and every issue as they were,
\* bulk_delete_books for all the books selected.
C26_IssuedBookNeverDeleted ==
    [][ /\ \A b \in DOMAIN books :
              (books[b].exists /\ currently_issued_count(b) > 0) =>
                 books'[b].exists
        /\ (lib_ret'.op \in DeleteOps
               /\ \E b \in lib_ret'.book_ids : currently_issued_count(b) > 0) =>
              /\ lib_ret'.status = "rejected"
              /\ books' = books
              /\ issued_books' = issued_books ]_vars

\* a bulk delete was refused for a selection of an issued book and a book
\* that could have been deleted
C26_Witness ==
    /\ lib_ret.op = "bulk_delete_books"
    /\ lib_ret.status = "rejected"
    /\ \E b \in lib_ret.book_ids : currently_issued_count(b) > 0
    /\ \E b \in lib_ret.book_ids :
          books[b].exists /\ currently_issued_count(b) = 0


\* the days a renewal asks for: 14 when the field is missing
DaysAsked(days) == IF days.kind = "missing" THEN 14 ELSE days.n

\* C30: renew_book leaves an issue as it is when the issue is returned or
\* the days asked for are outside 1..30; otherwise a POST moves expiry_date
\* on by exactly the days asked for (14 when none are given) and changes no
\* other field of the issue and no other row.
C30_RenewExtendsExpiryOnly ==
    [][ (lib_ret'.op = "renew_book"
            /\ (lib_ret' # lib_ret \/ issued_books' # issued_books)) =>
          LET old == IssueRow(lib_ret'.issue)
              asked == lib_ret'.days
              accepted == /\ IsNone(old.returned_date)
                          /\ lib_ret'.method = "POST"
                          /\ asked.kind # "text"
                          /\ DaysAsked(asked) >= 1
                          /\ DaysAsked(asked) <= 30
          IN /\ books' = books
             /\ Len(issued_books') = Len(issued_books)
             /\ \A i \in 1..Len(issued_books) :
                   issued_books'[i] =
                      IF accepted /\ issued_books[i].id = old.id
                      THEN [old EXCEPT !.expiry_date = old.expiry_date
                                                        + DaysAsked(asked)]
                      ELSE issued_books[i] ]_vars

\* a POST without days has moved the expiry date of an issue on by 14 days
C30_Witness ==
    /\ lib_ret.op = "renew_book"
    /\ lib_ret.status = "renewed"
    /\ lib_ret.days = NoDays
    /\ \E i \in 1..Len(issued_books) :
          /\ issued_books[i].id = lib_ret.issue
          /\ issued_books[i].expiry_date
                = issued_books[i].issued_date + LOAN_DAYS + 14

====
